---- MODULE Spec2Model ----
(***************************************************************************)
(* The price orchestrator of coin-analysis (src/api/unified_price_service  *)
(* .py) and the three provider adapters it drives (geckoterminal_service,  *)
(* defillama_service, alchemy_service), as a state machine, with the       *)
(* PortfolioService built on the orchestrator (portfolio_service.py) and   *)
(* the pure indicator functions of technical_analysis.py (SpecTA for the   *)
(* two moving averages, SpecIndicators for calculate_all_indicators).      *)
(*                                                                         *)
(* Every coroutine is a frame with a pc naming the await it is suspended   *)
(* at.  One action is one resumption: the upstream answers the pending     *)
(* request, the adapter turns the answer into a return value or an         *)
(* exception, and the orchestrator runs on to its next await or to its end.*)
(* Upstream answers are chosen nondeterministically at every request.      *)
(*                                                                         *)
(* Conventions: a nullable Python value is None (<<>>) or Some(v) (<<v>>); *)
(* a message is a sequence of text fragments; the floats of the code are   *)
(* exact rationals here; the clock fields (last_updated, timestamp) are    *)
(* left out of the dicts.                                                  *)
(***************************************************************************)
EXTENDS Integers, Sequences, FiniteSets, TLC

VARIABLES
    op,        \* the orchestrator operation last invoked, "idle" before the first
    session,   \* per adapter: the aiohttp sessions it holds (see NewSession)
    tasks,     \* the get_token_price coroutine frames in flight or finished
    hist,      \* the get_token_with_historical frame
    many,      \* the get_multiple_tokens frame
    cmp,       \* the compare_sources frame
    health,    \* the health_check frame
    portfolio, \* the PortfolioService call in progress
    ta         \* the TechnicalAnalysis computation (closes, period, results)

vars == <<op, session, tasks, hist, many, cmp, health, portfolio, ta>>

\* ------------------------------------------------------------------ bounds
\* Longest token list handed to get_multiple_tokens.
MaxTokens == 2

\* Longest prefix of the configured quote tokens a PortfolioService holds.
MaxQuotes == 2

\* Largest limit handed to get_top_pairs_by_liquidity / get_top_pairs_by_volume.
MaxLimit == 3

\* Longest close series and largest period handed to TechnicalAnalysis.
MaxLen == 4
MaxPeriod == 3

\* Longest historical series handed to calculate_all_indicators.
MaxCandles == 36

\* ------------------------------------------------------------ python values
None == <<>>
Some(v) == <<v>>
IsNone(o) == o = <<>>
Val(o) == o[1]

\* dict.get(k, default): the default only when the key is absent.
Get(d, k, default) == IF k \in DOMAIN d THEN d[k] ELSE default

\* dict with d[k] = v assigned.
Put(d, k, v) == [x \in DOMAIN d \cup {k} |-> IF x = k THEN v ELSE d[x]]

RECURSIVE Join(_, _)
\* sep.join(msgs) for a list of messages, as one message.
Join(msgs, sep) ==
    IF msgs = <<>> THEN <<>>
    ELSE IF Len(msgs) = 1 THEN msgs[1]
    ELSE msgs[1] \o <<sep>> \o Join(Tail(msgs), sep)

\* float(s) for the numeric strings the upstreams send; any other string
\* makes float() raise ValueError.
FloatTable == [s \in {"0", "19", "100"} |-> CASE s = "0" -> 0 [] s = "19" -> 19 [] s = "100" -> 100]
IsNumeric(s) == s \in DOMAIN FloatTable
Float(s) == FloatTable[s]

StatusStr(n) == CASE n = 200 -> "200" [] n = 404 -> "404" [] n = 429 -> "429" [] n = 500 -> "500"

\* ------------------------------------------------------------------ inputs
Tokens == {[address |-> "0xA", network |-> "polygon"],
           [address |-> "0xB", network |-> "ethereum"]}

Adapters == {"geckoterminal", "defillama", "alchemy"}

\* ------------------------------------------------- upstream answers (raw)
\* An answer is what one HTTP exchange yields: kind "http" with a status and a
\* body, or kind "transport" when the request itself raises.
Pool1 == [address |-> "0xpool", reserve_in_usd |-> "100", volume_24h |-> "19"]
Pool2 == [address |-> "0xpool2", reserve_in_usd |-> "19", volume_24h |-> "100"]

\* GET /networks/{n}/tokens/{a} followed, on 200, by GET .../pools.
GeckoAnswers ==
    {[kind |-> "http", status |-> 200, price_usd |-> p, pools |-> ps] :
        p \in {None, Some("19"), Some("100"), Some("n/a")},
        ps \in {<<>>, <<Pool1>>, <<Pool2, Pool1>>}}
    \cup {[kind |-> "http", status |-> 404], [kind |-> "http", status |-> 429],
          [kind |-> "transport"]}

\* GET /prices/current/{coin_id}: coin is the record under data.coins[coin_id].
LlamaAnswers ==
    {[kind |-> "http", status |-> 200, coin |-> c] :
        c \in {None, Some([symbol |-> "TOK"]),
               Some([symbol |-> "TOK", price |-> 21, decimals |-> Some(6)]),
               Some([symbol |-> "TOK", price |-> 104, decimals |-> None])}}
    \cup {[kind |-> "http", status |-> 404], [kind |-> "http", status |-> 500]}

\* POST alchemy_getTokenMetadata: result is data.result.
AlchemyAnswers ==
    {[kind |-> "http", status |-> 200, result |-> r] :
        r \in {[x \in {} |-> None],
               [symbol |-> "TOK", name |-> "Token", decimals |-> Some(18), logo |-> None]}}
    \cup {[kind |-> "http", status |-> 500], [kind |-> "transport"]}

\* The answers used where several get_token_price coroutines run at once.
GeckoAnswersFew ==
    {[kind |-> "http", status |-> 200, price_usd |-> Some("100"), pools |-> <<Pool1>>],
     [kind |-> "http", status |-> 200, price_usd |-> Some("19"), pools |-> <<Pool2, Pool1>>],
     [kind |-> "http", status |-> 404]}
LlamaAnswersFew ==
    {[kind |-> "http", status |-> 200,
      coin |-> Some([symbol |-> "TOK", price |-> 21, decimals |-> Some(6)])],
     [kind |-> "http", status |-> 500]}
AlchemyAnswersFew ==
    {[kind |-> "http", status |-> 200,
      result |-> [symbol |-> "TOK", name |-> "Token", decimals |-> Some(18), logo |-> None]],
     [kind |-> "http", status |-> 500]}

Upstream == [gecko |-> GeckoAnswers, llama |-> LlamaAnswers, alchemy |-> AlchemyAnswers]
UpstreamFew == [gecko |-> GeckoAnswersFew, llama |-> LlamaAnswersFew,
                alchemy |-> AlchemyAnswersFew]

\* An adapter call's outcome: a returned dict or a raised exception's str().
Ok(d) == [ok |-> TRUE, data |-> d]
Raise(msg) == [ok |-> FALSE, error |-> msg]

TransportError == <<"Cannot connect to host">>

\* --------------------------------------------------------------- adapters
\* GeckoTerminalService.get_token_price.  Every exception raised inside the
\* try, the 404 and the status errors included, is re-raised wrapped.
gecko_get_token_price(token, a) ==
    LET wrap(m) == Raise(<<"Failed to fetch token from GeckoTerminal: ">> \o m)
    IN  IF a.kind = "transport" THEN wrap(TransportError)
        ELSE IF a.status = 404 THEN wrap(<<"Token not found on ", token.network>>)
        ELSE IF a.status # 200
             THEN wrap(<<"GeckoTerminal API error: ", StatusStr(a.status), " - ", "error body">>)
        ELSE IF ~IsNone(a.price_usd) /\ Val(a.price_usd) # "" /\ ~IsNumeric(Val(a.price_usd))
             THEN wrap(<<"could not convert string to float">>)
        ELSE LET top_pool == IF a.pools # <<>> THEN Some(a.pools[1]) ELSE None
             IN  Ok([contract_address |-> token.address,
                     network |-> token.network,
                     name |-> "Token",
                     symbol |-> "TOK",
                     current_price |->
                         IF ~IsNone(a.price_usd) /\ Val(a.price_usd) # ""
                         THEN Some(Float(Val(a.price_usd))) ELSE Some(0),
                     volume_24h |->
                         IF ~IsNone(top_pool) THEN Some(Float(Val(top_pool).volume_24h))
                         ELSE Some(0),
                     liquidity_usd |->
                         IF ~IsNone(top_pool) THEN Some(Float(Val(top_pool).reserve_in_usd))
                         ELSE Some(0),
                     market_cap |-> None,
                     top_pool_address |->
                         IF ~IsNone(top_pool) THEN Some(Val(top_pool).address) ELSE None,
                     source |-> "geckoterminal"])

\* DeFiLlamaService.get_token_price.
llama_get_token_price(token, a) ==
    LET wrap(m) == Raise(<<"Failed to fetch token from DeFiLlama: ">> \o m)
    IN  IF a.kind = "transport" THEN wrap(TransportError)
        ELSE IF a.status = 404 THEN wrap(<<"Token not found on DeFiLlama">>)
        ELSE IF a.status # 200
             THEN wrap(<<"DeFiLlama API error: ", StatusStr(a.status), " - ", "error body">>)
        ELSE IF IsNone(a.coin)
             THEN wrap(<<"No price data found for ", token.network, ":", token.address>>)
        ELSE Ok([contract_address |-> token.address,
                 network |-> token.network,
                 symbol |-> Get(Val(a.coin), "symbol", ""),
                 current_price |-> Some(Get(Val(a.coin), "price", 0)),
                 decimals |-> Get(Val(a.coin), "decimals", None),
                 source |-> "defillama"])

\* AlchemyService.get_token_metadata.
alchemy_get_token_metadata(token, a) ==
    LET wrap(m) == Raise(<<"Alchemy API error: ">> \o m)
    IN  IF a.kind = "transport" THEN wrap(TransportError)
        ELSE IF a.status # 200
             THEN wrap(<<"Failed to fetch token metadata: ", StatusStr(a.status), " - ",
                         "error body">>)
        ELSE Ok([symbol |-> Get(a.result, "symbol", ""),
                 name |-> Get(a.result, "name", ""),
                 decimals |-> Get(a.result, "decimals", None),
                 logo |-> Get(a.result, "logo", None),
                 contract_address |-> token.address])

\* An adapter's sessions are the ClientSession objects it created that are
\* still open or still referenced, oldest first; the last one is
\* self.session, and no object stands for self.session = None.  releases
\* counts the session.close() calls made on the object.
NewSession == [closed |-> FALSE, releases |-> 0]

IsOpen(o) == ~o.closed

\* self.session is None or self.session.closed
NoneOrClosed(st) == st = <<>> \/ st[Len(st)].closed

\* _get_session creating a ClientSession at every call.
_get_session_always_new(s, adapter) ==
    [s EXCEPT ![adapter] = Append(SelectSeq(@, IsOpen), NewSession)]

\* _get_session of the adapter about to send a request: a session is created
\* when there is none or it is closed (the closed one loses its last
\* reference).
_get_session(s, adapter) ==
    [s EXCEPT ![adapter] = IF NoneOrClosed(@) THEN Append(SelectSeq(@, IsOpen), NewSession)
                           ELSE @]

\* close() calling session.close() whenever there is a session.
adapter_close_unguarded(st) ==
    IF st # <<>>
    THEN [st EXCEPT ![Len(st)] = [closed |-> TRUE, releases |-> @.releases + 1]]
    ELSE st

\* close() of one adapter: closes an open session, nothing otherwise.
adapter_close(st) ==
    IF st # <<>> /\ ~st[Len(st)].closed
    THEN [st EXCEPT ![Len(st)] = [closed |-> TRUE, releases |-> @.releases + 1]]
    ELSE st

\* ------------------------------------------------------------ call records
\* Each frame records the adapter calls it made, in order: answer is the
\* upstream's answer to the call's request and out the call's outcome, both
\* None while the call is in flight.
StartCall(calls, adapter, method) ==
    Append(calls, [adapter |-> adapter, method |-> method, answer |-> None, out |-> None])
SettleCall(calls, out) == [calls EXCEPT ![Len(calls)].out = Some(out)]

\* Frame f with the upstream's answer a to its pending request recorded.
Heard(f, a) == [f EXCEPT !.calls[Len(f.calls)].answer = Some(a)]

\* ------------------------------------- UnifiedPriceService.get_token_price
\* pc: "await_gecko" | "await_llama" | "await_enrich" | "await_alchemy" | "done"
\* A finished frame has returned (result = Some(dict)) or raised (exc = Some(msg)).

\* The frame of a call just made: it runs to its first await, the
\* GeckoTerminal request.
get_token_price(token, include_metadata) ==
    [token |-> token, include_metadata |-> include_metadata,
     pc |-> "await_gecko", errors |-> <<>>, data |-> None,
     calls |-> StartCall(<<>>, "geckoterminal", "get_token_price"),
     result |-> None, exc |-> None]

gecko_failed(e) == <<"GeckoTerminal failed: ">> \o e
llama_failed(e) == <<"DeFiLlama failed: ">> \o e
alchemy_failed(e) == <<"Alchemy failed: ">> \o e

\* all_sources_failed reporting the last failure alone.
all_sources_failed_last_only(token, errors) ==
    <<"All price sources failed for ", token.address, " on ", token.network, ". Errors: ">>
    \o errors[Len(errors)]

\* The exception raised when every source has failed.
all_sources_failed(token, errors) ==
    <<"All price sources failed for ", token.address, " on ", token.network, ". Errors: ">>
    \o Join(errors, "; ")

\* The DeFiLlama dict with the Alchemy metadata written over it.
enrich(data, alchemy_data) ==
    Put(Put(Put(data,
        "name", Get(alchemy_data, "name", Get(data, "symbol", ""))),
        "logo", Get(alchemy_data, "logo", None)),
        "decimals", Get(alchemy_data, "decimals", Get(data, "decimals", None)))

\* The dict returned when only Alchemy answered.
metadata_only(token, data) ==
    [contract_address |-> token.address,
     network |-> token.network,
     name |-> Get(data, "name", ""),
     symbol |-> Get(data, "symbol", ""),
     decimals |-> Get(data, "decimals", None),
     logo |-> Get(data, "logo", None),
     current_price |-> None,
     price_change_24h |-> None,
     volume_24h |-> None,
     liquidity_usd |-> None,
     market_cap |-> None,
     source |-> "alchemy",
     note |-> "Price data unavailable - metadata only"]

Return(t, d) == [t EXCEPT !.pc = "done", !.result = Some(d)]
Throw(t, msg) == [t EXCEPT !.pc = "done", !.exc = Some(msg)]

\* after_gecko without the return of try 1: a success falls through to try 2.
after_gecko_falls_through(t, out) ==
    LET u == [t EXCEPT !.calls = SettleCall(@, out)]
    IN  [u EXCEPT !.errors = IF out.ok THEN @ ELSE Append(@, gecko_failed(out.error)),
                  !.calls = StartCall(@, "defillama", "get_token_price"),
                  !.pc = "await_llama"]

\* Try 1 settles: return GeckoTerminal's dict, or note the failure and send
\* the DeFiLlama request.
after_gecko(t, out) ==
    LET u == [t EXCEPT !.calls = SettleCall(@, out)]
    IN  IF out.ok THEN Return(u, out.data)
        ELSE [u EXCEPT !.errors = Append(@, gecko_failed(out.error)),
                       !.calls = StartCall(@, "defillama", "get_token_price"),
                       !.pc = "await_llama"]

\* after_llama going to Alchemy whether asked to or not.
after_llama_always_metadata(t, out) ==
    LET u == [t EXCEPT !.calls = SettleCall(@, out)]
    IN  IF out.ok
        THEN [u EXCEPT !.data = Some(out.data),
                       !.calls = StartCall(@, "alchemy", "get_token_metadata"),
                       !.pc = "await_enrich"]
        ELSE LET v == [u EXCEPT !.errors = Append(@, llama_failed(out.error))]
             IN  [v EXCEPT !.calls = StartCall(@, "alchemy", "get_token_metadata"),
                           !.pc = "await_alchemy"]

\* Try 2 settles: on success enrich (when asked to) or return; on failure go
\* on to Alchemy (when asked to) or raise.
after_llama(t, out) ==
    LET u == [t EXCEPT !.calls = SettleCall(@, out)]
    IN  IF out.ok
        THEN IF t.include_metadata
             THEN [u EXCEPT !.data = Some(out.data),
                            !.calls = StartCall(@, "alchemy", "get_token_metadata"),
                            !.pc = "await_enrich"]
             ELSE Return(u, out.data)
        ELSE LET v == [u EXCEPT !.errors = Append(@, llama_failed(out.error))]
             IN  IF t.include_metadata
                 THEN [v EXCEPT !.calls = StartCall(@, "alchemy", "get_token_metadata"),
                                !.pc = "await_alchemy"]
                 ELSE Throw(v, all_sources_failed(v.token, v.errors))

\* after_enrich without the inner try: the enrichment's exception reaches the
\* handler of try 2, which notes it and goes on to try 3.
after_enrich_unguarded(t, out) ==
    LET u == [t EXCEPT !.calls = SettleCall(@, out)]
    IN  IF out.ok THEN Return(u, enrich(Val(t.data), out.data))
        ELSE [u EXCEPT !.errors = Append(@, llama_failed(out.error)),
                       !.calls = StartCall(@, "alchemy", "get_token_metadata"),
                       !.pc = "await_alchemy"]

\* The enrichment call settles: its failure is passed over.
after_enrich(t, out) ==
    LET u == [t EXCEPT !.calls = SettleCall(@, out)]
    IN  IF out.ok THEN Return(u, enrich(Val(t.data), out.data))
        ELSE Return(u, Val(t.data))

\* after_alchemy returning Alchemy's dict as it came.
after_alchemy_returns_raw(t, out) ==
    LET u == [t EXCEPT !.calls = SettleCall(@, out)]
    IN  IF out.ok THEN Return(u, out.data)
        ELSE LET v == [u EXCEPT !.errors = Append(@, alchemy_failed(out.error))]
             IN  Throw(v, all_sources_failed(v.token, v.errors))

\* Try 3 settles.
after_alchemy(t, out) ==
    LET u == [t EXCEPT !.calls = SettleCall(@, out)]
    IN  IF out.ok THEN Return(u, metadata_only(t.token, out.data))
        ELSE LET v == [u EXCEPT !.errors = Append(@, alchemy_failed(out.error))]
             IN  Throw(v, all_sources_failed(v.token, v.errors))

\* The adapter whose request a frame suspended at pc is waiting on.
AdapterAt(pc) ==
    CASE pc = "await_gecko" -> "geckoterminal"
      [] pc = "await_llama" -> "defillama"
      [] pc \in {"await_enrich", "await_alchemy"} -> "alchemy"

\* Sessions after a frame moved to pc: the adapter it now awaits got a session.
Acquire(s, pc) == IF pc = "done" THEN s ELSE _get_session(s, AdapterAt(pc))

\* Sessions after the frames ts were started one after the other.
RECURSIVE AcquireAll(_, _)
AcquireAll(s, ts) ==
    IF ts = <<>> THEN s ELSE AcquireAll(Acquire(s, ts[1].pc), Tail(ts))

\* -------------------------------------------------- historical-data adapters
Candle1 == <<1, 10, 12, 9, 11, 5>>
Candle2 == <<2, 11, 13, 10, 12, 0>>

\* GET /networks/{n}/pools/{pool}/ohlcv/day
GeckoOhlcvAnswers ==
    {[kind |-> "http", status |-> 200, ohlcv_list |-> l] :
        l \in {<<>>, <<Candle1>>, <<Candle1, Candle2>>}}
    \cup {[kind |-> "http", status |-> 500]}

\* GET /chart/{coin_id}: coin is the record under data.coins[coin_id].
LlamaChartAnswers ==
    {[kind |-> "http", status |-> 200, coin |-> c] :
        c \in {None,
               Some([symbol |-> "TOK", prices |-> <<>>]),
               Some([symbol |-> "TOK",
                     prices |-> <<[timestamp |-> 1, price |-> 21, confidence |-> 1]>>])}}
    \cup {[kind |-> "http", status |-> 500]}

\* One candle of GeckoTerminalService.get_historical_ohlcv.
format_candle(c) ==
    [timestamp |-> c[1] * 1000, open |-> c[2], high |-> c[3], low |-> c[4],
     close |-> c[5], volume |-> c[6]]

\* GeckoTerminalService.get_historical_ohlcv.
gecko_get_historical_ohlcv(token, pool_address, a) ==
    LET wrap(m) == Raise(<<"Failed to fetch historical data from GeckoTerminal: ">> \o m)
    IN  IF a.kind = "transport" THEN wrap(TransportError)
        ELSE IF a.status # 200
             THEN wrap(<<"Failed to fetch OHLCV: ", StatusStr(a.status), " - ", "error body">>)
        ELSE Ok([pool_address |-> pool_address,
                 network |-> token.network,
                 timeframe |-> "day",
                 data |-> [i \in 1..Len(a.ohlcv_list) |-> format_candle(a.ohlcv_list[i])]])

\* One point of DeFiLlamaService.get_historical_prices.
format_price_point(pt) ==
    [timestamp |-> Get(pt, "timestamp", 0) * 1000,
     price |-> Get(pt, "price", 0),
     confidence |-> Get(pt, "confidence", 0)]

\* DeFiLlamaService.get_historical_prices.
llama_get_historical_prices(token, a) ==
    LET wrap(m) == Raise(<<"Failed to fetch historical data from DeFiLlama: ">> \o m)
    IN  IF a.kind = "transport" THEN wrap(TransportError)
        ELSE IF a.status # 200
             THEN wrap(<<"Failed to fetch historical data: ", StatusStr(a.status), " - ",
                         "error body">>)
        ELSE IF IsNone(a.coin)
             THEN wrap(<<"No historical data found for ", token.network, ":", token.address>>)
        ELSE LET prices == Get(Val(a.coin), "prices", <<>>)
             IN  Ok([contract_address |-> token.address,
                     network |-> token.network,
                     symbol |-> Get(Val(a.coin), "symbol", ""),
                     decimals |-> Get(Val(a.coin), "decimals", None),
                     data |-> [i \in 1..Len(prices) |-> format_price_point(prices[i])],
                     source |-> "defillama"])

\* --------------------------- UnifiedPriceService.get_token_with_historical
\* pc: "idle" | "await_gecko" | "await_ohlcv" | "await_llama" | "await_llama_hist"
\*     | "fallback" (inside the nested get_token_price, frame tasks[1]) | "done"
\* The first two awaits are GeckoTerminalService.get_token_with_ohlcv's.
HistIdle ==
    [token |-> None, pc |-> "idle", errors |-> <<>>, price_data |-> None, calls |-> <<>>,
     result |-> None, exc |-> None]

get_token_with_historical(token) ==
    [HistIdle EXCEPT !.token = Some(token), !.pc = "await_gecko",
                     !.calls = StartCall(<<>>, "geckoterminal", "get_token_price")]

gecko_ohlcv_failed(e) == <<"GeckoTerminal OHLCV failed: ">> \o e
llama_historical_failed(e) == <<"DeFiLlama historical failed: ">> \o e
fallback_failed(e) == <<"Current price fallback failed: ">> \o e

all_historical_failed(errors) ==
    <<"All sources failed for historical data. Errors: ">> \o Join(errors, "; ")

\* After a failed try 2 the frame enters try 3, the nested get_token_price.
enter_fallback(h, e) ==
    [h EXCEPT !.errors = Append(@, llama_historical_failed(e)), !.pc = "fallback"]

\* hist_after_gecko taking a price without a pool for a failure of try 1.
hist_after_gecko_needs_pool(h, out) ==
    LET u == [h EXCEPT !.calls = SettleCall(@, out)]
    IN  IF out.ok /\ ~IsNone(out.data.top_pool_address) /\ Val(out.data.top_pool_address) # ""
        THEN [u EXCEPT !.price_data = Some(out.data),
                       !.calls = StartCall(@, "geckoterminal", "get_historical_ohlcv"),
                       !.pc = "await_ohlcv"]
        ELSE [u EXCEPT !.errors = Append(@, gecko_ohlcv_failed(
                                               IF out.ok THEN <<"no pool">> ELSE out.error)),
                       !.calls = StartCall(@, "defillama", "get_token_price"),
                       !.pc = "await_llama"]

\* get_token_with_ohlcv's price lookup settles.
hist_after_gecko(h, out) ==
    LET u == [h EXCEPT !.calls = SettleCall(@, out)]
    IN  IF out.ok
        THEN IF ~IsNone(out.data.top_pool_address) /\ Val(out.data.top_pool_address) # ""
             THEN [u EXCEPT !.price_data = Some(out.data),
                            !.calls = StartCall(@, "geckoterminal", "get_historical_ohlcv"),
                            !.pc = "await_ohlcv"]
             ELSE Return(u, Put(out.data, "historical_data", <<>>))
        ELSE [u EXCEPT !.errors = Append(@, gecko_ohlcv_failed(out.error)),
                       !.calls = StartCall(@, "defillama", "get_token_price"),
                       !.pc = "await_llama"]

\* hist_after_ohlcv letting the OHLCV failure out of get_token_with_ohlcv, so
\* that try 1 fails.
hist_after_ohlcv_falls_through(h, out) ==
    LET u == [h EXCEPT !.calls = SettleCall(@, out)]
    IN  IF out.ok
        THEN Return(u, Put(Val(h.price_data), "historical_data", Get(out.data, "data", <<>>)))
        ELSE [u EXCEPT !.errors = Append(@, gecko_ohlcv_failed(out.error)),
                       !.calls = StartCall(@, "defillama", "get_token_price"),
                       !.pc = "await_llama"]

\* get_token_with_ohlcv's OHLCV fetch settles.
hist_after_ohlcv(h, out) ==
    LET u == [h EXCEPT !.calls = SettleCall(@, out)]
    IN  IF out.ok
        THEN Return(u, Put(Val(h.price_data), "historical_data", Get(out.data, "data", <<>>)))
        ELSE Return(u, Put(Put(Val(h.price_data), "historical_data", <<>>),
                           "historical_error", out.error))

\* Try 2's current-price call settles.
hist_after_llama(h, out) ==
    LET u == [h EXCEPT !.calls = SettleCall(@, out)]
    IN  IF out.ok
        THEN [u EXCEPT !.price_data = Some(out.data),
                       !.calls = StartCall(@, "defillama", "get_historical_prices"),
                       !.pc = "await_llama_hist"]
        ELSE enter_fallback(u, out.error)

\* Try 2's historical call settles.
hist_after_llama_hist(h, out) ==
    LET u == [h EXCEPT !.calls = SettleCall(@, out)]
    IN  IF out.ok
        THEN Return(u, Put(Val(h.price_data), "historical_data", Get(out.data, "data", <<>>)))
        ELSE enter_fallback(u, out.error)

\* hist_after_fallback leaving the note out of the degraded result.
hist_after_fallback_no_note(h, t) ==
    IF ~IsNone(t.result)
    THEN Return(h, Put(Val(t.result), "historical_data", <<>>))
    ELSE LET errors == Append(h.errors, fallback_failed(Val(t.exc)))
         IN  Throw([h EXCEPT !.errors = errors], all_historical_failed(errors))

\* Try 3's nested get_token_price, frame t, has finished.
hist_after_fallback(h, t) ==
    IF ~IsNone(t.result)
    THEN Return(h, Put(Put(Val(t.result), "historical_data", <<>>),
                       "note", "Historical data unavailable"))
    ELSE LET errors == Append(h.errors, fallback_failed(Val(t.exc)))
         IN  Throw([h EXCEPT !.errors = errors], all_historical_failed(errors))

\* --------------------------------- UnifiedPriceService.get_multiple_tokens
\* pc: "idle" | "gather" (awaiting asyncio.gather over frames tasks[1..n]) | "done"
ManyIdle ==
    [tokens |-> <<>>, include_metadata |-> TRUE, pc |-> "idle", result |-> None, exc |-> None]

TokenLists == UNION {[1..n -> Tokens] : n \in 0..MaxTokens}

AllDone(ts) == \A i \in DOMAIN ts : ts[i].pc = "done"

\* gather without return_exceptions: the first exception is raised to the caller.
gather_raising(ts) ==
    LET bad == {i \in DOMAIN ts : IsNone(ts[i].result)}
    IN  IF bad # {}
        THEN Raise(Val(ts[CHOOSE i \in bad : \A j \in bad : i <= j].exc))
        ELSE [ok |-> TRUE,
              data |-> [i \in DOMAIN ts |->
                          [is_exception |-> FALSE, value |-> Val(ts[i].result)]]]

\* What asyncio.gather(*tasks, return_exceptions=True) hands back once every
\* task has finished: per task, in task order, its result or its exception.
gather(ts) ==
    [ok |-> TRUE,
     data |-> [i \in DOMAIN ts |->
                 IF ~IsNone(ts[i].result) THEN [is_exception |-> FALSE, value |-> Val(ts[i].result)]
                 ELSE [is_exception |-> TRUE, value |-> Val(ts[i].exc)]]]

RECURSIVE successful(_)
\* The loop over results: exceptions are logged and left out.
successful(results) ==
    IF results = <<>> THEN <<>>
    ELSE IF results[1].is_exception THEN successful(Tail(results))
    ELSE <<results[1].value>> \o successful(Tail(results))

\* The frame once gather has settled.
many_after_gather(m, ts) ==
    LET g == gather(ts)
    IN  IF g.ok THEN Return(m, successful(g.data)) ELSE Throw(m, g.error)

\* The frame of a call just made: an empty token list returns at once.
get_multiple_tokens(tokens, include_metadata) ==
    LET m == [ManyIdle EXCEPT !.tokens = tokens, !.include_metadata = include_metadata,
                              !.pc = "gather"]
    IN  IF tokens = <<>> THEN many_after_gather(m, <<>>) ELSE m

\* ------------------------------------- UnifiedPriceService.compare_sources
\* pc: "idle" | "await_gecko" | "await_llama" | "await_alchemy" | "done"
\* sources is the results['sources'] dict; its keys are inserted in SourceOrder.
CmpIdle ==
    [token |-> None, pc |-> "idle", sources |-> [x \in {} |-> None], calls |-> <<>>,
     result |-> None, exc |-> None]

SourceOrder == <<"geckoterminal", "defillama", "alchemy">>

compare_sources(token) ==
    [CmpIdle EXCEPT !.token = Some(token), !.pc = "await_gecko",
                    !.calls = StartCall(<<>>, "geckoterminal", "get_token_price")]

\* The entry written for a price source.
price_entry(out) ==
    IF out.ok
    THEN [success |-> TRUE, price |-> Get(out.data, "current_price", None), data |-> out.data]
    ELSE [success |-> FALSE, error |-> out.error]

\* The entry written for Alchemy.
alchemy_entry(out) ==
    IF out.ok
    THEN [success |-> TRUE, price |-> None, data |-> out.data,
          note |-> "Metadata only, no price"]
    ELSE [success |-> FALSE, error |-> out.error]

RECURSIVE collect_prices(_, _)
\* The (source, price) pairs of the successful entries with a price, in the
\* dict's order; order is the keys still to visit.
collect_prices(sources, order) ==
    IF order = <<>> THEN <<>>
    ELSE LET s == order[1]
             rest == collect_prices(sources, Tail(order))
         IN  IF s \in DOMAIN sources /\ Get(sources[s], "success", FALSE)
                /\ ~IsNone(Get(sources[s], "price", None))
             THEN <<[source |-> s, price |-> Val(sources[s].price)]>> \o rest
             ELSE rest

RECURSIVE Sum(_)
Sum(xs) == IF xs = <<>> THEN 0 ELSE xs[1] + Sum(Tail(xs))

Abs(x) == IF x < 0 THEN -x ELSE x

MaxOf(S) == CHOOSE x \in S : \A y \in S : y <= x

\* A rational num/den with den > 0.
Rat(n, d) == [num |-> n, den |-> d]
RatLess(r, k) == r.num < k * r.den

\* The deviation threshold, in percent.
consistent(max_deviation) == RatLess(max_deviation, 5)

\* price_analysis measuring the spread of the prices (largest minus smallest)
\* against the average instead of the largest distance from the average.
price_analysis_spread(prices) ==
    LET values == [i \in DOMAIN prices |-> prices[i].price]
        k == Len(values)
        S == Sum(values)
        V == {values[i] : i \in DOMAIN values}
    IN  IF S = 0 THEN Raise(<<"float division by zero">>)
        ELSE LET max_deviation ==
                     Rat(100 * k * (MaxOf(V) - (CHOOSE x \in V : \A y \in V : x <= y)), S)
             IN  Ok([prices |-> prices,
                     average |-> Rat(S, k),
                     max_deviation_percent |-> max_deviation,
                     consistent |-> consistent(max_deviation)])

\* The price_analysis block over two or more prices; dividing by an average
\* of zero raises ZeroDivisionError.  With k prices of sum S the average is
\* S/k and a price p deviates by |p - S/k| / (S/k) * 100 = 100 |k p - S| / S.
price_analysis(prices) ==
    LET values == [i \in DOMAIN prices |-> prices[i].price]
        k == Len(values)
        S == Sum(values)
    IN  IF S = 0 THEN Raise(<<"float division by zero">>)
        ELSE LET max_deviation ==
                     Rat(MaxOf({100 * Abs(k * values[i] - S) : i \in DOMAIN values}), S)
             IN  Ok([prices |-> prices,
                     average |-> Rat(S, k),
                     max_deviation_percent |-> max_deviation,
                     consistent |-> consistent(max_deviation)])

\* The tail of compare_sources, after the three calls.
cmp_finish(c) ==
    LET results == [contract_address |-> Val(c.token).address,
                    network |-> Val(c.token).network,
                    sources |-> c.sources]
        prices == collect_prices(c.sources, SourceOrder)
    IN  IF Len(prices) > 1
        THEN LET pa == price_analysis(prices)
             IN  IF pa.ok THEN Return(c, Put(results, "price_analysis", pa.data))
                 ELSE Throw(c, pa.error)
        ELSE Return(c, results)

cmp_after_gecko(c, out) ==
    [c EXCEPT !.sources = Put(@, "geckoterminal", price_entry(out)),
              !.calls = StartCall(SettleCall(@, out), "defillama", "get_token_price"),
              !.pc = "await_llama"]

\* cmp_after_llama writing DeFiLlama's entry under GeckoTerminal's key.
cmp_after_llama_wrong_key(c, out) ==
    [c EXCEPT !.sources = Put(@, "geckoterminal", price_entry(out)),
              !.calls = StartCall(SettleCall(@, out), "alchemy", "get_token_metadata"),
              !.pc = "await_alchemy"]

cmp_after_llama(c, out) ==
    [c EXCEPT !.sources = Put(@, "defillama", price_entry(out)),
              !.calls = StartCall(SettleCall(@, out), "alchemy", "get_token_metadata"),
              !.pc = "await_alchemy"]

cmp_after_alchemy(c, out) ==
    cmp_finish([c EXCEPT !.sources = Put(@, "alchemy", alchemy_entry(out)),
                         !.calls = SettleCall(@, out)])

\* ---------------------------------------- UnifiedPriceService.health_check
\* pc: "idle" | "await_gecko" | "await_llama" | "await_alchemy" | "done"
\* services is the health['services'] dict.
HealthIdle ==
    [pc |-> "idle", services |-> [x \in {} |-> None], calls |-> <<>>,
     result |-> None, exc |-> None]

\* The token every probe asks for (USDC on Polygon).
ReferenceToken ==
    [address |-> "0x2791bca1f2de4661ed88a30c99a7a9449aa84174", network |-> "polygon"]

health_check ==
    [HealthIdle EXCEPT !.pc = "await_gecko",
                       !.calls = StartCall(<<>>, "geckoterminal", "get_token_price")]

\* The entry written for a probed adapter.
health_entry(out) ==
    IF out.ok THEN [status |-> "healthy"]
    ELSE [status |-> "unhealthy", error |-> out.error]

\* overall with any() in place of all().
overall_any(services) ==
    \E s \in DOMAIN services : Get(services[s], "status", None) = "healthy"

\* all(s.get('status') == 'healthy' for s in services.values())
overall(services) ==
    \A s \in DOMAIN services : Get(services[s], "status", None) = "healthy"

health_after_gecko(h, out) ==
    [h EXCEPT !.services = Put(@, "geckoterminal", health_entry(out)),
              !.calls = StartCall(SettleCall(@, out), "defillama", "get_token_price"),
              !.pc = "await_llama"]

health_after_llama(h, out) ==
    [h EXCEPT !.services = Put(@, "defillama", health_entry(out)),
              !.calls = StartCall(SettleCall(@, out), "alchemy", "get_token_metadata"),
              !.pc = "await_alchemy"]

health_after_alchemy(h, out) ==
    LET services == Put(h.services, "alchemy", health_entry(out))
    IN  Return([h EXCEPT !.services = services, !.calls = SettleCall(@, out)],
               [services |-> services, overall |-> overall(services)])

\* ---------------------------------------------------------- PortfolioService
\* token_config.py: the main token and the first of the quote tokens.
MAIN_TOKEN ==
    [symbol |-> "DDD", contract |-> "0x4bf82cf0d6b2afc87367052b793097153c859d38",
     network |-> "polygon"]

QUOTE_TOKENS ==
    <<[symbol |-> "USDGLO", pair |-> "DDD/USDGLO",
       contract |-> "0x7ee2dd0022e3460177b90b8f8fa3b3a76d970ff6", network |-> "polygon"],
      [symbol |-> "axiREGEN", pair |-> "DDD/axiREGEN",
       contract |-> "0x520a3b3faca7ddc8dc8cd3380c8475b67f3c7b8d", network |-> "polygon"],
      [symbol |-> "CCC", pair |-> "DDD/CCC",
       contract |-> "0x73e6a1630486d0874ec56339327993a3e4684691", network |-> "polygon"],
      [symbol |-> "PR24", pair |-> "DDD/PR24",
       contract |-> "0xa249cc5719da5457b212d9c5f4b1e95c7f597441", network |-> "polygon"]>>

\* The (contract_address, network) a configured token is resolved under.
token_of(cfg) == [address |-> cfg.contract, network |-> cfg.network]

\* pc: "idle" | "gather" (awaiting the get_token_price frames in tasks) | "done"
\* quote_tokens is self.quote_tokens, limit the argument of the top-pairs calls.
PortfolioIdle ==
    [quote_tokens |-> <<>>, limit |-> 0, pc |-> "idle", result |-> None, exc |-> None]

PortfolioOps ==
    {"get_portfolio_summary", "get_top_pairs_by_liquidity", "get_top_pairs_by_volume",
     "portfolio_health_check"}

\* get_main_token_data once its get_token_price, frame t, has finished.
get_main_token_data(t) ==
    IF ~IsNone(t.result)
    THEN Ok([success |-> TRUE, symbol |-> MAIN_TOKEN.symbol, data |-> Val(t.result)])
    ELSE Ok([success |-> FALSE, symbol |-> MAIN_TOKEN.symbol, error |-> Val(t.exc)])

\* get_quote_token_data(token) once its get_token_price, frame t, has finished.
get_quote_token_data(token, t) ==
    IF ~IsNone(t.result)
    THEN [success |-> TRUE, symbol |-> token.symbol, pair |-> token.pair,
          contract |-> token.contract, data |-> Val(t.result)]
    ELSE [success |-> FALSE, symbol |-> token.symbol, pair |-> token.pair,
          contract |-> token.contract, error |-> Val(t.exc)]

\* get_all_quote_tokens: gather hands back the results in the order of
\* self.quote_tokens; ts are the quote tokens' finished frames.
get_all_quote_tokens(quote_tokens, ts) ==
    [i \in DOMAIN quote_tokens |-> get_quote_token_data(quote_tokens[i], ts[i])]

\* d.get(k, 0) or 0
get_or_zero(d, k) == IF k \in DOMAIN d /\ ~IsNone(d[k]) THEN Val(d[k]) ELSE 0

\* bool(pair.get("data")): a non-empty dict under "data".
has_data(q) == "data" \in DOMAIN q /\ DOMAIN q.data # {}

IsSuccess(q) == q.success
IsFailure(q) == ~q.success

\* total_of counting the liquidity of every quote token holding data,
\* without the main token.
total_of_pairs_only(main_data, successful_pairs, k) ==
    Sum([i \in DOMAIN successful_pairs |->
            IF has_data(successful_pairs[i]) THEN get_or_zero(successful_pairs[i].data, k)
            ELSE 0])

\* The running total of field k over the main token and the successful pairs.
total_of(main_data, successful_pairs, k) ==
    (IF main_data.success THEN get_or_zero(Get(main_data, "data", [x \in {} |-> None]), k)
     ELSE 0)
    + Sum([i \in DOMAIN successful_pairs |->
            IF has_data(successful_pairs[i]) THEN get_or_zero(successful_pairs[i].data, k)
            ELSE 0])

\* The count of successes taking every quote token as resolved.
count_successful_all(main_data, quote_data_list) ==
    Len(quote_data_list) + (IF main_data.success THEN 1 ELSE 0)

\* successful = sum(1 for q in quote_data_list if q["success"]) + (1 if main ...)
count_successful(main_data, quote_data_list) ==
    Len(SelectSeq(quote_data_list, IsSuccess)) + (IF main_data.success THEN 1 ELSE 0)

\* The reduction of get_portfolio_summary (the configuration constants, the
\* clock and the formatted success_rate are left out of the dict).
portfolio_summary(main_data, quote_data_list) ==
    LET total_tokens == Len(quote_data_list) + 1
        n_successful == count_successful(main_data, quote_data_list)
        successful_pairs == SelectSeq(quote_data_list, IsSuccess)
        failed_pairs == SelectSeq(quote_data_list, IsFailure)
    IN  [main_token |-> main_data,
         quote_tokens |-> [successful |-> successful_pairs,
                           failed |-> failed_pairs,
                           total |-> Len(quote_data_list)],
         statistics |-> [total_tokens |-> total_tokens,
                         successful |-> n_successful,
                         failed |-> total_tokens - n_successful,
                         total_liquidity_usd |->
                             total_of(main_data, successful_pairs, "liquidity_usd"),
                         total_volume_24h_usd |->
                             total_of(main_data, successful_pairs, "volume_24h")]]

\* list.sort(key=lambda x: x[k], reverse=True): stable, largest first.  The
\* list is built by inserting its elements in turn, each behind the elements
\* whose key is not smaller.
RECURSIVE sort_reverse(_, _)
sort_reverse(l, k) ==
    IF l = <<>> THEN <<>>
    ELSE LET sorted == sort_reverse(SubSeq(l, 1, Len(l) - 1), k)
             x == l[Len(l)]
             pos == Cardinality({j \in DOMAIN sorted : sorted[j][k] >= x[k]})
         IN  SubSeq(sorted, 1, pos) \o <<x>> \o SubSeq(sorted, pos + 1, Len(sorted))

\* l[:limit] for limit >= 0.
truncate(l, limit) == SubSeq(l, 1, IF limit < Len(l) THEN limit ELSE Len(l))

\* The entries of get_top_pairs_by_liquidity, before sorting.
pairs_with_liquidity(quote_data_list) ==
    LET kept == SelectSeq(quote_data_list, LAMBDA q : q.success /\ has_data(q))
    IN  [i \in DOMAIN kept |->
            [pair |-> kept[i].pair,
             symbol |-> kept[i].symbol,
             liquidity_usd |-> get_or_zero(kept[i].data, "liquidity_usd"),
             price |-> Get(kept[i].data, "current_price", None),
             volume_24h |-> Get(kept[i].data, "volume_24h", Some(0)),
             source |-> Get(kept[i].data, "source", None)]]

\* The entries of get_top_pairs_by_volume, before sorting.
pairs_with_volume(quote_data_list) ==
    LET kept == SelectSeq(quote_data_list, LAMBDA q : q.success /\ has_data(q))
    IN  [i \in DOMAIN kept |->
            [pair |-> kept[i].pair,
             symbol |-> kept[i].symbol,
             volume_24h |-> get_or_zero(kept[i].data, "volume_24h"),
             price |-> Get(kept[i].data, "current_price", None),
             liquidity_usd |-> Get(kept[i].data, "liquidity_usd", Some(0)),
             source |-> Get(kept[i].data, "source", None)]]

\* get_top_pairs_by_liquidity returning the pairs unsorted.
get_top_pairs_by_liquidity_unsorted(quote_data_list, limit) ==
    truncate(pairs_with_liquidity(quote_data_list), limit)

get_top_pairs_by_liquidity(quote_data_list, limit) ==
    truncate(sort_reverse(pairs_with_liquidity(quote_data_list), "liquidity_usd"), limit)

get_top_pairs_by_volume(quote_data_list, limit) ==
    truncate(sort_reverse(pairs_with_volume(quote_data_list), "volume_24h"), limit)

\* portfolio_health_check calling an inaccessible main token "unhealthy".
portfolio_health_check_strict(out) ==
    IF out.ok /\ out.data.success
    THEN [status |-> "healthy", main_token_accessible |-> TRUE]
    ELSE [status |-> "unhealthy", main_token_accessible |-> FALSE]

\* PortfolioService.health_check over the outcome of get_main_token_data.
portfolio_health_check(out) ==
    IF out.ok
    THEN [status |-> IF out.data.success THEN "healthy" ELSE "degraded",
          main_token_accessible |-> out.data.success]
    ELSE [status |-> "unhealthy", error |-> out.error]

\* The PortfolioService call o resumes once every frame of ts has finished.
\* In get_portfolio_summary ts[1] is the main token's frame.
portfolio_finish(o, p, ts) ==
    CASE o = "get_portfolio_summary" ->
           Return(p, portfolio_summary(get_main_token_data(ts[1]).data,
                      get_all_quote_tokens(p.quote_tokens, Tail(ts))))
      [] o = "get_top_pairs_by_liquidity" ->
           Return(p, get_top_pairs_by_liquidity(
                      get_all_quote_tokens(p.quote_tokens, ts), p.limit))
      [] o = "get_top_pairs_by_volume" ->
           Return(p, get_top_pairs_by_volume(
                      get_all_quote_tokens(p.quote_tokens, ts), p.limit))
      [] o = "portfolio_health_check" ->
           Return(p, portfolio_health_check(get_main_token_data(ts[1])))

\* The get_token_price frames of the quote tokens (include_metadata defaults
\* to True).
quote_frames(quote_tokens) ==
    [i \in DOMAIN quote_tokens |-> get_token_price(token_of(quote_tokens[i]), TRUE)]

\* -------------------------------------------------------- TechnicalAnalysis
\* Arithmetic on exact rationals in lowest terms.
RECURSIVE GCD(_, _)
GCD(a, b) == IF b = 0 THEN a ELSE GCD(b, a % b)

\* n/d for d > 0, reduced.
Norm(n, d) == LET g == GCD(Abs(n), d) IN Rat(n \div g, d \div g)

\* Sums go over the least common denominator and products are reduced
\* crosswise first, which keeps the intermediate integers small.
Lcm(a, b) == (a \div GCD(a, b)) * b

RatNeg(x) == Rat(-x.num, x.den)
RatAbs(x) == Rat(Abs(x.num), x.den)
RatAdd(x, y) ==
    LET l == Lcm(x.den, y.den)
    IN  Norm(x.num * (l \div x.den) + y.num * (l \div y.den), l)
RatSub(x, y) == RatAdd(x, RatNeg(y))
RatMul(x, y) ==
    LET g1 == GCD(Abs(x.num), y.den)
        g2 == GCD(Abs(y.num), x.den)
    IN  Norm((x.num \div g1) * (y.num \div g2), (x.den \div g2) * (y.den \div g1))
\* x / y for y # 0.
RatDiv(x, y) ==
    RatMul(x, IF y.num < 0 THEN Rat(-y.den, -y.num) ELSE Rat(y.den, y.num))
RatEq(x, y) == x.num * y.den = y.num * x.den
RatLt(x, y) == RatSub(x, y).num < 0
RatGt(x, y) == RatLt(y, x)

\* float(n) of an integer n.
float(n) == Norm(n, 1)
floats(ns) == [i \in DOMAIN ns |-> float(ns[i])]

\* sum(xs).  Every rational has den > 0: the test only settles the running
\* value before it is used.
RECURSIVE sum_loop(_, _)
sum_loop(so_far, xs) ==
    IF xs = <<>> THEN so_far
    ELSE LET next == RatAdd(so_far, xs[1])
         IN  IF next.den > 0 THEN sum_loop(next, Tail(xs)) ELSE next

RatSum(xs) == sum_loop(float(0), xs)

\* Python truthiness of a float-or-None: None and 0.0 are falsy.
Truthy(o) == ~IsNone(o) /\ Val(o).num # 0

\* round(x, ndigits): the nearest multiple of 10^-ndigits, a tie going to the
\* even one.
RECURSIVE Scale(_)
Scale(ndigits) == IF ndigits = 0 THEN 1 ELSE 10 * Scale(ndigits - 1)

round(x, ndigits) ==
    LET scale == Scale(ndigits)
        whole == x.num \div x.den
        t == (x.num % x.den) * scale
        f == t \div x.den
        rem == t % x.den
        up == IF 2 * rem > x.den THEN 1
              ELSE IF 2 * rem = x.den THEN f % 2
              ELSE 0
    IN  Norm(whole * scale + f + up, scale)

\* x ** 0.5 for x >= 0, to the hundredth below the root.
sqrt(x) ==
    LET target == x.num * 10000
        s == CHOOSE k \in 0..(100 * (x.num \div x.den + 1)) :
                 /\ k * k * x.den <= target
                 /\ (k + 1) * (k + 1) * x.den > target
    IN  Norm(s, 100)

\* The closes a series is made of.
CloseValues == {1, 2, 4}

CloseSeries == UNION {[1..n -> CloseValues] : n \in 0..MaxLen}

\* values[-period:] and values[:period], values[period:] for 1 <= period <= len.
last_of(values, period) == SubSeq(values, Len(values) - period + 1, Len(values))
first_of(values, period) == SubSeq(values, 1, period)
rest_of(values, period) == SubSeq(values, period + 1, Len(values))

\* TechnicalAnalysis.calculate_sma
calculate_sma(values, period) ==
    IF Len(values) < period THEN None
    ELSE Some(RatDiv(RatSum(last_of(values, period)), float(period)))

\* The for loop of calculate_ema over the prices still to come.
RECURSIVE ema_loop(_, _, _)
ema_loop(so_far, prices, by) ==
    IF prices = <<>> THEN so_far
    ELSE LET next == RatAdd(RatMul(RatSub(prices[1], so_far), by), so_far)
         IN  IF next.den > 0 THEN ema_loop(next, Tail(prices), by) ELSE next

\* calculate_ema running the loop over every value, the seed's included.
calculate_ema_from_start(values, period) ==
    IF Len(values) < period THEN None
    ELSE LET multiplier == Norm(2, period + 1)
             ema == RatDiv(RatSum(first_of(values, period)), float(period))
         IN  Some(ema_loop(ema, values, multiplier))

\* TechnicalAnalysis.calculate_ema
calculate_ema(values, period) ==
    IF Len(values) < period THEN None
    ELSE LET multiplier == Norm(2, period + 1)
             ema == RatDiv(RatSum(first_of(values, period)), float(period))
         IN  Some(ema_loop(ema, rest_of(values, period), multiplier))

\* TechnicalAnalysis._get_closes: candle['close'] raises KeyError on a point
\* without that key.
_get_closes(historical_data) ==
    LET data == historical_data.data
    IN  IF \E i \in DOMAIN data : "close" \notin DOMAIN data[i]
        THEN Raise(<<"'close'">>)
        ELSE Ok([i \in DOMAIN data |-> float(data[i].close)])

\* TechnicalAnalysis.calculate_moving_averages
calculate_moving_averages(closes) ==
    [sma_20 |-> calculate_sma(closes, 20),
     sma_50 |-> calculate_sma(closes, 50),
     sma_200 |-> calculate_sma(closes, 200),
     ema_12 |-> calculate_ema(closes, 12),
     ema_26 |-> calculate_ema(closes, 26)]

\* changes = [closes[i] - closes[i-1] for i in range(1, len(closes))]
changes_of(closes) ==
    [i \in 1..(Len(closes) - 1) |-> RatSub(closes[i + 1], closes[i])]

gains_of(changes) ==
    [i \in DOMAIN changes |-> IF changes[i].num > 0 THEN changes[i] ELSE float(0)]

losses_of(changes) ==
    [i \in DOMAIN changes |-> IF changes[i].num < 0 THEN RatAbs(changes[i]) ELSE float(0)]

\* The signal of calculate_rsi.
rsi_signal(rsi_value) ==
    IF RatGt(rsi_value, float(70)) THEN "overbought"
    ELSE IF RatLt(rsi_value, float(30)) THEN "oversold"
    ELSE "neutral"

\* calculate_rsi with the gains taken for the losses and the losses for the
\* gains.
calculate_rsi_swapped(closes, period) ==
    IF Len(closes) < period + 1 THEN [value |-> None, signal |-> "neutral"]
    ELSE LET changes == changes_of(closes)
             avg_gain == RatDiv(RatSum(last_of(losses_of(changes), period)), float(period))
             avg_loss == RatDiv(RatSum(last_of(gains_of(changes), period)), float(period))
             rsi_value == IF avg_loss.num = 0 THEN float(100)
                          ELSE LET rs == RatDiv(avg_gain, avg_loss)
                               IN  RatSub(float(100),
                                          RatDiv(float(100), RatAdd(float(1), rs)))
         IN  [value |-> Some(round(rsi_value, 2)), signal |-> rsi_signal(rsi_value)]

\* TechnicalAnalysis.calculate_rsi
calculate_rsi(closes, period) ==
    IF Len(closes) < period + 1 THEN [value |-> None, signal |-> "neutral"]
    ELSE LET changes == changes_of(closes)
             avg_gain == RatDiv(RatSum(last_of(gains_of(changes), period)), float(period))
             avg_loss == RatDiv(RatSum(last_of(losses_of(changes), period)), float(period))
             rsi_value == IF avg_loss.num = 0 THEN float(100)
                          ELSE LET rs == RatDiv(avg_gain, avg_loss)
                               IN  RatSub(float(100),
                                          RatDiv(float(100), RatAdd(float(1), rs)))
         IN  [value |-> Some(round(rsi_value, 2)), signal |-> rsi_signal(rsi_value)]

\* The MACD record of a series too short for it.
macd_null ==
    [macd_line |-> None, signal_line |-> None, histogram |-> None, signal |-> "neutral"]

\* The loop of calculate_macd over the prefixes closes[:i], i from lo to
\* len(closes): a prefix whose EMA is None or 0.0 adds nothing.
RECURSIVE macd_values_from(_, _)
macd_values_from(closes, i) ==
    IF i > Len(closes) THEN <<>>
    ELSE LET ema12 == calculate_ema(SubSeq(closes, 1, i), 12)
             ema26 == calculate_ema(SubSeq(closes, 1, i), 26)
         IN  (IF Truthy(ema12) /\ Truthy(ema26)
              THEN <<RatSub(Val(ema12), Val(ema26))>>
              ELSE <<>>) \o macd_values_from(closes, i + 1)

\* The signal of calculate_macd.
macd_signal(macd_line, signal_line, histogram) ==
    IF RatGt(macd_line, signal_line) /\ histogram.num > 0 THEN "bullish"
    ELSE IF RatLt(macd_line, signal_line) /\ histogram.num < 0 THEN "bearish"
    ELSE "neutral"

\* TechnicalAnalysis.calculate_macd
calculate_macd(closes) ==
    IF Len(closes) < 26 THEN macd_null
    ELSE LET ema_12 == calculate_ema(closes, 12)
             ema_26 == calculate_ema(closes, 26)
         IN  IF IsNone(ema_12) \/ IsNone(ema_26) THEN macd_null
             ELSE LET macd_line == RatSub(Val(ema_12), Val(ema_26))
                      macd_values == macd_values_from(closes, 26)
                      signal_line == IF Len(macd_values) >= 9
                                     THEN Val(calculate_ema(macd_values, 9))
                                     ELSE macd_line
                      histogram == IF signal_line.num # 0
                                   THEN RatSub(macd_line, signal_line)
                                   ELSE float(0)
                  IN  [macd_line |-> Some(round(macd_line, 2)),
                       signal_line |-> IF signal_line.num # 0
                                       THEN Some(round(signal_line, 2))
                                       ELSE None,
                       histogram |-> Some(round(histogram, 2)),
                       signal |-> macd_signal(macd_line, signal_line, histogram)]

\* TechnicalAnalysis.calculate_bollinger_bands
calculate_bollinger_bands(closes, period) ==
    IF Len(closes) < period
    THEN [upper |-> None, middle |-> None, lower |-> None, bandwidth |-> None]
    ELSE LET sma == Val(calculate_sma(closes, period))
             recent_closes == last_of(closes, period)
             squares == [i \in DOMAIN recent_closes |->
                            RatMul(RatSub(recent_closes[i], sma),
                                   RatSub(recent_closes[i], sma))]
             variance == RatDiv(RatSum(squares), float(period))
             std_dev == sqrt(variance)
             upper == RatAdd(sma, RatMul(float(2), std_dev))
             lower == RatSub(sma, RatMul(float(2), std_dev))
             bandwidth == IF sma.num # 0 THEN RatDiv(RatSub(upper, lower), sma)
                          ELSE float(0)
         IN  [upper |-> Some(round(upper, 2)),
              middle |-> Some(round(sma, 2)),
              lower |-> Some(round(lower, 2)),
              bandwidth |-> Some(round(bandwidth, 4))]

\* volumes[-20:-5] of at least 20 volumes.
older_of(volumes) == SubSeq(volumes, Len(volumes) - 19, Len(volumes) - 5)

\* analyze_volume_trend comparing against an older mean of 0 as against any
\* other.
analyze_volume_trend_unguarded(historical_data) ==
    LET data == historical_data.data
        volumes == [i \in DOMAIN data |-> Get(data[i], "volume", 0)]
    IN  IF Sum(volumes) = 0 \/ Len(volumes) < 20 THEN "neutral"
        ELSE LET recent_volume == Norm(Sum(last_of(volumes, 5)), 5)
                 older_volume == Norm(Sum(older_of(volumes)), 15)
             IN  IF RatGt(recent_volume, RatMul(older_volume, Norm(12, 10)))
                 THEN "increasing"
                 ELSE IF RatLt(recent_volume, RatMul(older_volume, Norm(8, 10)))
                      THEN "decreasing"
                 ELSE "neutral"

\* TechnicalAnalysis.analyze_volume_trend
analyze_volume_trend(historical_data) ==
    LET data == historical_data.data
        volumes == [i \in DOMAIN data |-> Get(data[i], "volume", 0)]
    IN  IF Sum(volumes) = 0 \/ Len(volumes) < 20 THEN "neutral"
        ELSE LET recent_volume == Norm(Sum(last_of(volumes, 5)), 5)
                 older_volume == Norm(Sum(older_of(volumes)), 15)
             IN  IF older_volume.num = 0 THEN "neutral"
                 ELSE IF RatGt(recent_volume, RatMul(older_volume, Norm(12, 10)))
                      THEN "increasing"
                 ELSE IF RatLt(recent_volume, RatMul(older_volume, Norm(8, 10)))
                      THEN "decreasing"
                 ELSE "neutral"

\* The votes calculate_overall_signal collects, in order.
signals_of(indicators) ==
    LET ma == indicators.moving_averages
    IN  (IF Truthy(indicators.rsi.value)
         THEN IF indicators.rsi.signal = "oversold" THEN <<1>>
              ELSE IF indicators.rsi.signal = "overbought" THEN <<-1>>
              ELSE <<>>
         ELSE <<>>)
        \o (IF indicators.macd.signal = "bullish" THEN <<1>>
            ELSE IF indicators.macd.signal = "bearish" THEN <<-1>>
            ELSE <<>>)
        \o (IF Truthy(ma.ema_12) /\ Truthy(ma.ema_26)
            THEN IF RatGt(Val(ma.ema_12), Val(ma.ema_26)) THEN <<1>> ELSE <<-1>>
            ELSE <<>>)

\* TechnicalAnalysis.calculate_overall_signal
calculate_overall_signal(indicators) ==
    LET signals == signals_of(indicators)
    IN  IF signals = <<>> THEN "neutral"
        ELSE LET avg_signal == Norm(Sum(signals), Len(signals))
             IN  IF RatGt(avg_signal, Norm(3, 10)) THEN "bullish"
                 ELSE IF RatLt(avg_signal, Norm(-3, 10)) THEN "bearish"
                 ELSE "neutral"

\* The empty dict {}.
EmptyDict == [k \in {} |-> None]

\* What calculate_all_indicators returns for a series without closes.
no_indicators ==
    [current_price |-> float(0),
     moving_averages |-> EmptyDict,
     rsi |-> [value |-> None, signal |-> "neutral"],
     macd |-> EmptyDict,
     bollinger_bands |-> EmptyDict,
     volume_trend |-> "neutral",
     overall_signal |-> "neutral"]

\* TechnicalAnalysis.calculate_all_indicators
calculate_all_indicators(historical_data) ==
    LET got == _get_closes(historical_data)
    IN  IF ~got.ok THEN got
        ELSE LET closes == got.data
             IN  IF closes = <<>> THEN Ok(no_indicators)
                 ELSE LET indicators ==
                              [current_price |-> closes[Len(closes)],
                               moving_averages |-> calculate_moving_averages(closes),
                               rsi |-> calculate_rsi(closes, 14),
                               macd |-> calculate_macd(closes),
                               bollinger_bands |-> calculate_bollinger_bands(closes, 20),
                               volume_trend |-> analyze_volume_trend(historical_data)]
                      IN  Ok(Put(indicators, "overall_signal",
                                 calculate_overall_signal(indicators)))

\* The historical series the indicators are computed over.  Closes are flat
\* at one value and end in at most two other values, or rise or fall by one
\* per candle; volumes are flat with the last five at another level.
CandleCloses == {0, 1, 2, 4}
Tails == {<<>>} \cup {<<a>> : a \in CandleCloses}
             \cup {<<a, b>> : a \in CandleCloses, b \in CandleCloses}
RampLens == 14..16

Flat(c, m) == [i \in 1..m |-> c]
Rising(m) == [i \in 1..m |-> i]
Falling(m) == [i \in 1..m |-> 21 - i]

CloseShapes ==
    UNION {{Flat(c, m) \o t : c \in CandleCloses, m \in 0..(MaxCandles - Len(t))}
              : t \in Tails}
    \cup {Rising(m) : m \in RampLens}
    \cup {Falling(m) : m \in RampLens}

\* <<older, recent>> volume levels.
VolumeLevels == {<<0, 0>>, <<5, 5>>, <<5, 6>>, <<5, 7>>, <<5, 4>>, <<5, 3>>, <<0, 5>>, <<5, 0>>}

volumes_at(levels, n) ==
    [i \in 1..n |-> IF i > n - 5 THEN levels[2] ELSE levels[1]]

\* Candles as get_historical_ohlcv formats them.
candles_of(closes, volumes) ==
    [i \in DOMAIN closes |->
        format_candle(<<i, closes[i], closes[i], closes[i], closes[i], volumes[i]>>)]

\* Points as get_historical_prices formats them.
points_of(prices) ==
    [i \in DOMAIN prices |->
        format_price_point([timestamp |-> i, price |-> prices[i], confidence |-> 1])]

HistoricalSeries ==
    {[data |-> candles_of(closes, volumes_at(<<5, 5>>, Len(closes)))] :
        closes \in CloseShapes}
    \cup {[data |-> candles_of(Flat(1, n), volumes_at(levels, n))] :
            n \in 0..MaxCandles, levels \in VolumeLevels}
    \cup {[data |-> points_of(Flat(1, n))] : n \in 0..2}

\* One calculate_all_indicators call: out holds what it returned or raised.
IndicatorsIdle == [historical_data |-> [data |-> <<>>], out |-> None]

\* A computation over one series: sma and ema hold the results once computed.
TAIdle ==
    [closes |-> <<>>, period |-> 1, sma_done |-> FALSE, sma |-> None,
     ema_done |-> FALSE, ema |-> None]

\* ------------------------------------------------------------ state machine
Init ==
    /\ op = "idle"
    /\ session = [a \in Adapters |-> <<>>]
    /\ tasks = <<>>
    /\ hist = HistIdle
    /\ many = ManyIdle
    /\ cmp = CmpIdle
    /\ health = HealthIdle
    /\ portfolio = PortfolioIdle
    /\ ta = TAIdle

\* An orchestrator call is still running.  Calls are made one at a time.
Busy ==
    \/ op = "get_token_price" /\ ~AllDone(tasks)
    \/ op = "get_token_with_historical" /\ hist.pc # "done"
    \/ op = "get_multiple_tokens" /\ many.pc # "done"
    \/ op = "compare_sources" /\ cmp.pc # "done"
    \/ op = "health_check" /\ health.pc # "done"
    \/ op \in PortfolioOps /\ portfolio.pc # "done"

\* The answers the upstreams may give to the running operation's requests.
Answers ==
    IF op \in {"get_multiple_tokens", "get_portfolio_summary",
               "get_top_pairs_by_liquidity", "get_top_pairs_by_volume"}
    THEN UpstreamFew ELSE Upstream

\* A caller awaits get_token_price(token, include_metadata).
CallGetTokenPrice ==
    /\ ~Busy
    /\ \E token \in Tokens, include_metadata \in BOOLEAN :
          tasks' = <<get_token_price(token, include_metadata)>>
    /\ op' = "get_token_price"
    /\ session' = _get_session(session, "geckoterminal")
    /\ hist' = HistIdle /\ many' = ManyIdle /\ cmp' = CmpIdle
    /\ health' = HealthIdle
    /\ portfolio' = PortfolioIdle
    /\ ta' = TAIdle

\* A caller awaits get_token_with_historical(token).
CallGetTokenWithHistorical ==
    /\ ~Busy
    /\ \E token \in Tokens : hist' = get_token_with_historical(token)
    /\ op' = "get_token_with_historical"
    /\ session' = _get_session(session, "geckoterminal")
    /\ tasks' = <<>> /\ many' = ManyIdle /\ cmp' = CmpIdle
    /\ health' = HealthIdle
    /\ portfolio' = PortfolioIdle
    /\ ta' = TAIdle

\* A caller awaits get_multiple_tokens(tokens, include_metadata): gather
\* starts every get_token_price coroutine before the caller is resumed.
CallGetMultipleTokens ==
    /\ ~Busy
    /\ \E tokens \in TokenLists, include_metadata \in BOOLEAN :
          /\ many' = get_multiple_tokens(tokens, include_metadata)
          /\ tasks' = [i \in DOMAIN tokens |-> get_token_price(tokens[i], include_metadata)]
          /\ session' = AcquireAll(session,
                            [i \in DOMAIN tokens |-> get_token_price(tokens[i], include_metadata)])
    /\ op' = "get_multiple_tokens"
    /\ hist' = HistIdle /\ cmp' = CmpIdle
    /\ health' = HealthIdle
    /\ portfolio' = PortfolioIdle
    /\ ta' = TAIdle

\* A caller awaits compare_sources(token).
CallCompareSources ==
    /\ ~Busy
    /\ \E token \in Tokens : cmp' = compare_sources(token)
    /\ op' = "compare_sources"
    /\ session' = _get_session(session, "geckoterminal")
    /\ tasks' = <<>> /\ hist' = HistIdle /\ many' = ManyIdle
    /\ health' = HealthIdle
    /\ portfolio' = PortfolioIdle
    /\ ta' = TAIdle

\* UnifiedPriceService.close(): closes the three adapters in turn.
Close ==
    /\ ~Busy
    /\ session' = [a \in Adapters |-> adapter_close(session[a])]
    /\ UNCHANGED <<op, tasks, hist, many, cmp, health, portfolio, ta>>

\* Frame i of tasks has moved on to t: the sessions follow, and a caller
\* waiting on the frames (gather, or the fallback of
\* get_token_with_historical) resumes when they are finished.
Resume(i, t) ==
    LET ts == [tasks EXCEPT ![i] = t]
    IN  /\ tasks' = ts
        /\ session' = Acquire(session, t.pc)
        /\ many' = IF op = "get_multiple_tokens" /\ AllDone(ts)
                   THEN many_after_gather(many, ts) ELSE many
        /\ hist' = IF op = "get_token_with_historical" /\ t.pc = "done"
                   THEN hist_after_fallback(hist, t) ELSE hist
        /\ portfolio' = IF op \in PortfolioOps /\ AllDone(ts)
                        THEN portfolio_finish(op, portfolio, ts) ELSE portfolio
        /\ UNCHANGED <<op, cmp, health, ta>>

\* GeckoTerminal answers a get_token_price frame.
GeckoSettles ==
    \E i \in DOMAIN tasks, a \in Answers.gecko :
        /\ tasks[i].pc = "await_gecko"
        /\ Resume(i, after_gecko(Heard(tasks[i], a), gecko_get_token_price(tasks[i].token, a)))

\* DeFiLlama answers a get_token_price frame.
LlamaSettles ==
    \E i \in DOMAIN tasks, a \in Answers.llama :
        /\ tasks[i].pc = "await_llama"
        /\ Resume(i, after_llama(Heard(tasks[i], a), llama_get_token_price(tasks[i].token, a)))

\* Alchemy answers the enrichment request of a get_token_price frame.
EnrichSettles ==
    \E i \in DOMAIN tasks, a \in Answers.alchemy :
        /\ tasks[i].pc = "await_enrich"
        /\ Resume(i, after_enrich(Heard(tasks[i], a), alchemy_get_token_metadata(tasks[i].token, a)))

\* Alchemy answers the metadata-only request of a get_token_price frame.
AlchemySettles ==
    \E i \in DOMAIN tasks, a \in Answers.alchemy :
        /\ tasks[i].pc = "await_alchemy"
        /\ Resume(i, after_alchemy(Heard(tasks[i], a), alchemy_get_token_metadata(tasks[i].token, a)))

\* The get_token_with_historical frame has moved on to h: entering the
\* fallback makes the nested get_token_price call (include_metadata defaults
\* to True), which sends its GeckoTerminal request.
HistResume(h) ==
    /\ hist' = h
    /\ tasks' = IF h.pc = "fallback" THEN <<get_token_price(Val(h.token), TRUE)>> ELSE tasks
    /\ session' = CASE h.pc = "fallback" -> _get_session(session, "geckoterminal")
                    [] h.pc = "await_ohlcv" -> _get_session(session, "geckoterminal")
                    [] h.pc \in {"await_llama", "await_llama_hist"} ->
                           _get_session(session, "defillama")
                    [] OTHER -> session
    /\ UNCHANGED <<op, many, cmp, health, portfolio, ta>>

HistGeckoSettles ==
    \E a \in Answers.gecko :
        /\ hist.pc = "await_gecko"
        /\ HistResume(hist_after_gecko(Heard(hist, a), gecko_get_token_price(Val(hist.token), a)))

HistOhlcvSettles ==
    \E a \in GeckoOhlcvAnswers :
        /\ hist.pc = "await_ohlcv"
        /\ HistResume(hist_after_ohlcv(Heard(hist, a),
               gecko_get_historical_ohlcv(Val(hist.token),
                   Val(Val(hist.price_data).top_pool_address), a)))

HistLlamaSettles ==
    \E a \in Answers.llama :
        /\ hist.pc = "await_llama"
        /\ HistResume(hist_after_llama(Heard(hist, a), llama_get_token_price(Val(hist.token), a)))

HistLlamaHistSettles ==
    \E a \in LlamaChartAnswers :
        /\ hist.pc = "await_llama_hist"
        /\ HistResume(hist_after_llama_hist(Heard(hist, a),
               llama_get_historical_prices(Val(hist.token), a)))

\* The compare_sources frame has moved on to c.
CmpResume(c) ==
    /\ cmp' = c
    /\ session' = Acquire(session, c.pc)
    /\ UNCHANGED <<op, tasks, hist, many, health, portfolio, ta>>

CmpGeckoSettles ==
    \E a \in Answers.gecko :
        /\ cmp.pc = "await_gecko"
        /\ CmpResume(cmp_after_gecko(Heard(cmp, a), gecko_get_token_price(Val(cmp.token), a)))

CmpLlamaSettles ==
    \E a \in Answers.llama :
        /\ cmp.pc = "await_llama"
        /\ CmpResume(cmp_after_llama(Heard(cmp, a), llama_get_token_price(Val(cmp.token), a)))

CmpAlchemySettles ==
    \E a \in Answers.alchemy :
        /\ cmp.pc = "await_alchemy"
        /\ CmpResume(cmp_after_alchemy(Heard(cmp, a), alchemy_get_token_metadata(Val(cmp.token), a)))

\* A caller awaits health_check().
CallHealthCheck ==
    /\ ~Busy
    /\ health' = health_check
    /\ op' = "health_check"
    /\ session' = _get_session(session, "geckoterminal")
    /\ tasks' = <<>> /\ hist' = HistIdle /\ many' = ManyIdle /\ cmp' = CmpIdle
    /\ portfolio' = PortfolioIdle
    /\ ta' = TAIdle

\* The health_check frame has moved on to h.
HealthResume(h) ==
    /\ health' = h
    /\ session' = Acquire(session, h.pc)
    /\ UNCHANGED <<op, tasks, hist, many, cmp, portfolio, ta>>

HealthGeckoSettles ==
    \E a \in Answers.gecko :
        /\ health.pc = "await_gecko"
        /\ HealthResume(health_after_gecko(Heard(health, a),
                                           gecko_get_token_price(ReferenceToken, a)))

HealthLlamaSettles ==
    \E a \in Answers.llama :
        /\ health.pc = "await_llama"
        /\ HealthResume(health_after_llama(Heard(health, a),
                                           llama_get_token_price(ReferenceToken, a)))

HealthAlchemySettles ==
    \E a \in Answers.alchemy :
        /\ health.pc = "await_alchemy"
        /\ HealthResume(health_after_alchemy(Heard(health, a),
                                             alchemy_get_token_metadata(ReferenceToken, a)))

\* A caller awaits PortfolioService.get_portfolio_summary(): gather starts
\* the main token's coroutine and every quote token's before any answer.
CallGetPortfolioSummary ==
    /\ ~Busy
    /\ \E n \in 0..MaxQuotes :
          LET quote_tokens == SubSeq(QUOTE_TOKENS, 1, n)
          IN  /\ portfolio' = [PortfolioIdle EXCEPT !.quote_tokens = quote_tokens,
                                                   !.pc = "gather"]
              /\ tasks' = <<get_token_price(token_of(MAIN_TOKEN), TRUE)>>
                             \o quote_frames(quote_tokens)
              /\ session' = AcquireAll(session,
                                <<get_token_price(token_of(MAIN_TOKEN), TRUE)>>
                                \o quote_frames(quote_tokens))
    /\ op' = "get_portfolio_summary"
    /\ hist' = HistIdle /\ many' = ManyIdle /\ cmp' = CmpIdle /\ health' = HealthIdle
    /\ ta' = TAIdle

\* A caller awaits get_top_pairs_by_liquidity(limit) or
\* get_top_pairs_by_volume(limit); without quote tokens gather returns at once.
CallGetTopPairs ==
    /\ ~Busy
    /\ \E n \in 0..MaxQuotes, limit \in 0..MaxLimit,
          o \in {"get_top_pairs_by_liquidity", "get_top_pairs_by_volume"} :
          LET quote_tokens == SubSeq(QUOTE_TOKENS, 1, n)
              p == [PortfolioIdle EXCEPT !.quote_tokens = quote_tokens, !.limit = limit,
                                         !.pc = "gather"]
          IN  /\ portfolio' = IF n = 0 THEN portfolio_finish(o, p, <<>>) ELSE p
              /\ tasks' = quote_frames(quote_tokens)
              /\ session' = AcquireAll(session, quote_frames(quote_tokens))
              /\ op' = o
    /\ hist' = HistIdle /\ many' = ManyIdle /\ cmp' = CmpIdle /\ health' = HealthIdle
    /\ ta' = TAIdle

\* A caller awaits PortfolioService.health_check().
CallPortfolioHealthCheck ==
    /\ ~Busy
    /\ portfolio' = [PortfolioIdle EXCEPT !.pc = "gather"]
    /\ tasks' = <<get_token_price(token_of(MAIN_TOKEN), TRUE)>>
    /\ op' = "portfolio_health_check"
    /\ session' = _get_session(session, "geckoterminal")
    /\ hist' = HistIdle /\ many' = ManyIdle /\ cmp' = CmpIdle /\ health' = HealthIdle
    /\ ta' = TAIdle

Next ==
    \/ CallGetTokenPrice
    \/ CallGetTokenWithHistorical
    \/ CallGetMultipleTokens
    \/ CallCompareSources
    \/ Close
    \/ GeckoSettles
    \/ LlamaSettles
    \/ EnrichSettles
    \/ AlchemySettles
    \/ HistGeckoSettles
    \/ HistOhlcvSettles
    \/ HistLlamaSettles
    \/ HistLlamaHistSettles
    \/ CmpGeckoSettles
    \/ CmpLlamaSettles
    \/ CmpAlchemySettles
    \/ CallHealthCheck
    \/ HealthGeckoSettles
    \/ HealthLlamaSettles
    \/ HealthAlchemySettles
    \/ CallGetPortfolioSummary
    \/ CallGetTopPairs
    \/ CallPortfolioHealthCheck

Spec == Init /\ [][Next]_vars

\* ------------------------------------------- TechnicalAnalysis on its own
\* The indicator functions are pure: they are applied to every close series
\* of up to MaxLen closes and every period up to MaxPeriod, the services idle.
InitTA ==
    /\ op = "idle"
    /\ session = [a \in Adapters |-> <<>>]
    /\ tasks = <<>>
    /\ hist = HistIdle
    /\ many = ManyIdle
    /\ cmp = CmpIdle
    /\ health = HealthIdle
    /\ portfolio = PortfolioIdle
    /\ \E closes \in CloseSeries, period \in 1..MaxPeriod :
          ta = [TAIdle EXCEPT !.closes = closes, !.period = period]

CalculateSma ==
    /\ ~ta.sma_done
    /\ ta' = [ta EXCEPT !.sma_done = TRUE, !.sma = calculate_sma(floats(ta.closes), ta.period)]
    /\ UNCHANGED <<op, session, tasks, hist, many, cmp, health, portfolio>>

CalculateEma ==
    /\ ~ta.ema_done
    /\ ta' = [ta EXCEPT !.ema_done = TRUE, !.ema = calculate_ema(floats(ta.closes), ta.period)]
    /\ UNCHANGED <<op, session, tasks, hist, many, cmp, health, portfolio>>

NextTA ==
    \/ CalculateSma
    \/ CalculateEma

SpecTA == InitTA /\ [][NextTA]_vars

\* ------------------------------------- calculate_all_indicators on its own
\* The indicator set is computed once over each historical series.
InitIndicators ==
    /\ op = "idle"
    /\ session = [a \in Adapters |-> <<>>]
    /\ tasks = <<>>
    /\ hist = HistIdle
    /\ many = ManyIdle
    /\ cmp = CmpIdle
    /\ health = HealthIdle
    /\ portfolio = PortfolioIdle
    /\ \E historical_data \in HistoricalSeries :
          ta = [IndicatorsIdle EXCEPT !.historical_data = historical_data]

CalculateAllIndicators ==
    /\ IsNone(ta.out)
    /\ ta' = [ta EXCEPT !.out = Some(calculate_all_indicators(ta.historical_data))]
    /\ UNCHANGED <<op, session, tasks, hist, many, cmp, health, portfolio>>

NextIndicators == CalculateAllIndicators

SpecIndicators == InitIndicators /\ [][NextIndicators]_vars

\* ------------------------------------------------------ reading the frames
Settled(c) == ~IsNone(c.out)
Succeeded(c) == Settled(c) /\ Val(c.out).ok
Failed(c) == Settled(c) /\ ~Val(c.out).ok
ErrorOf(c) == Val(c.out).error

Returned(f) == f.pc = "done" /\ ~IsNone(f.result)
Raised(f) == f.pc = "done" /\ ~IsNone(f.exc)

\* sub occurs in msg as a run of fragments starting at index i.
OccursAt(msg, sub, i) ==
    /\ i >= 1 /\ i + Len(sub) - 1 <= Len(msg)
    /\ \A k \in 1..Len(sub) : msg[i + k - 1] = sub[k]

\* The messages of subs occur in msg one after the other, in the order of subs.
RECURSIVE InOrderFrom(_, _, _)
InOrderFrom(msg, subs, from) ==
    IF subs = <<>> THEN TRUE
    ELSE \E i \in from..Len(msg) :
            /\ OccursAt(msg, subs[1], i)
            /\ InOrderFrom(msg, Tail(subs), i + Len(subs[1]))
InOrder(msg, subs) == InOrderFrom(msg, subs, 1)

\* The raw exception messages of the three adapters' price and metadata calls.
RawErrors ==
    LET outs == {gecko_get_token_price(t, a) : t \in Tokens, a \in GeckoAnswers}
                \cup {llama_get_token_price(t, a) : t \in Tokens, a \in LlamaAnswers}
                \cup {alchemy_get_token_metadata(t, a) : t \in Tokens, a \in AlchemyAnswers}
    IN  {o.error : o \in {x \in outs : ~x.ok}}

\* ------------------------------------------------------------------ claims
\* C1: get_token_price tries GeckoTerminal, DeFiLlama, Alchemy strictly one
\* after the other: at most the last call of a frame is in flight; the
\* DeFiLlama price call is the second call and follows a failed GeckoTerminal
\* call; an Alchemy call is the third call, and the metadata-only attempt
\* follows a failed DeFiLlama call; when GeckoTerminal succeeds the frame has
\* made no other call and returns GeckoTerminal's dict as it is.
C1_SequentialFallback ==
    \A i \in DOMAIN tasks :
        LET t == tasks[i]
            c == t.calls
        IN  /\ Len(c) >= 1 /\ Len(c) <= 3
            /\ c[1].adapter = "geckoterminal"
            /\ \A k \in 1..(Len(c) - 1) : Settled(c[k])
            /\ \A k \in 2..Len(c) :
                  /\ c[k].adapter # "geckoterminal"
                  /\ c[k].adapter = "defillama" => k = 2 /\ Failed(c[1])
                  /\ c[k].adapter = "alchemy" => k = 3 /\ c[2].adapter = "defillama"
            /\ t.pc = "await_alchemy" => Failed(c[1]) /\ Failed(c[2])
            /\ (Returned(t) /\ Val(t.result).source = "alchemy") =>
                  Len(c) = 3 /\ Failed(c[1]) /\ Failed(c[2])
            /\ Succeeded(c[1]) =>
                  /\ Len(c) = 1
                  /\ Returned(t) /\ IsNone(t.exc)
                  /\ Val(t.result) = Val(c[1].out).data

\* A frame whose metadata-only request is in flight after two failed attempts.
C1_Witness ==
    \E i \in DOMAIN tasks :
        /\ tasks[i].pc = "await_alchemy"
        /\ Len(tasks[i].calls) = 3
        /\ Failed(tasks[i].calls[1]) /\ Failed(tasks[i].calls[2])

\* C2: with include_metadata, a get_token_price whose three adapter calls all
\* failed raises one error whose message holds the three adapters' failure
\* messages in the order GeckoTerminal, DeFiLlama, Alchemy; and whatever
\* get_token_price raises is that aggregated error, never an adapter's own.
C2_AggregateFailure ==
    \A i \in DOMAIN tasks :
        LET t == tasks[i]
            c == t.calls
        IN  /\ (t.include_metadata /\ Len(c) = 3 /\ \A k \in 1..3 : Failed(c[k])) =>
                  /\ Raised(t) /\ IsNone(t.result)
                  /\ InOrder(Val(t.exc), <<ErrorOf(c[1]), ErrorOf(c[2]), ErrorOf(c[3])>>)
                  /\ InOrder(Val(t.exc), <<<<"GeckoTerminal failed: ">>,
                                           <<"DeFiLlama failed: ">>, <<"Alchemy failed: ">>>>)
            /\ Raised(t) =>
                  /\ Val(t.exc) \notin RawErrors
                  /\ Head(Val(t.exc)) = "All price sources failed for "
                  /\ \A k \in 1..Len(c) : Failed(c[k]) => InOrder(Val(t.exc), <<ErrorOf(c[k])>>)

\* A frame that raised after GeckoTerminal, DeFiLlama and Alchemy all failed.
C2_Witness ==
    \E i \in DOMAIN tasks :
        /\ Raised(tasks[i]) /\ tasks[i].include_metadata
        /\ Len(tasks[i].calls) = 3
        /\ \A k \in 1..3 : Failed(tasks[i].calls[k])

\* C3: when GeckoTerminal and DeFiLlama fail and Alchemy answers,
\* get_token_price returns a dict with current_price None, the metadata-only
\* source tag ("alchemy") and a non-empty note.
MetadataOnlyTag == "alchemy"

C3_MetadataOnlyResult ==
    \A i \in DOMAIN tasks :
        LET t == tasks[i]
            c == t.calls
        IN  (Len(c) = 3 /\ Failed(c[1]) /\ Failed(c[2]) /\ Succeeded(c[3])) =>
                /\ Returned(t) /\ IsNone(t.exc)
                /\ "current_price" \in DOMAIN Val(t.result)
                /\ IsNone(Val(t.result).current_price)
                /\ Val(t.result).source = MetadataOnlyTag
                /\ "note" \in DOMAIN Val(t.result)
                /\ Val(t.result).note # ""

\* A frame that returned after only Alchemy answered.
C3_Witness ==
    \E i \in DOMAIN tasks :
        /\ Returned(tasks[i])
        /\ Len(tasks[i].calls) = 3
        /\ Failed(tasks[i].calls[2]) /\ Succeeded(tasks[i].calls[3])

\* C4: once GeckoTerminal has failed and DeFiLlama's price call has
\* succeeded, get_token_price returns DeFiLlama's price and source whatever
\* the enrichment call does: the frame never raises, never enters the
\* metadata-only step, and its error list holds GeckoTerminal's failure alone.
C4_EnrichmentBestEffort ==
    \A i \in DOMAIN tasks :
        LET t == tasks[i]
            c == t.calls
        IN  (Len(c) >= 2 /\ Succeeded(c[2])) =>
                /\ t.pc \in {"await_enrich", "done"}
                /\ IsNone(t.exc)
                /\ t.errors = <<gecko_failed(ErrorOf(c[1]))>>
                /\ t.pc = "done" =>
                      /\ Returned(t)
                      /\ Val(t.result).current_price = Val(c[2].out).data.current_price
                      /\ Val(t.result).source = "defillama"
                      /\ Val(t.result).source = Val(c[2].out).data.source

\* A frame that returned DeFiLlama's price although the enrichment call failed.
C4_Witness ==
    \E i \in DOMAIN tasks :
        /\ Returned(tasks[i])
        /\ Len(tasks[i].calls) = 3
        /\ Succeeded(tasks[i].calls[2]) /\ Failed(tasks[i].calls[3])

\* The indices of the frames that returned a dict, and the k-th of them.
Resolved == {i \in DOMAIN tasks : Returned(tasks[i])}
KthResolved(k) == CHOOSE i \in Resolved : Cardinality({j \in Resolved : j <= i}) = k

\* C5: get_multiple_tokens never raises; it finishes only when every token's
\* get_token_price has finished, and returns exactly the dicts of the tokens
\* that resolved, in the order of the token list.
C5_BatchIsolation ==
    op = "get_multiple_tokens" =>
        /\ IsNone(many.exc)
        /\ Len(tasks) = Len(many.tokens)
        /\ many.pc = "done" <=> AllDone(tasks)
        /\ many.pc = "done" =>
              /\ ~IsNone(many.result)
              /\ Len(Val(many.result)) = Cardinality(Resolved)
              /\ \A k \in 1..Cardinality(Resolved) :
                    /\ Val(many.result)[k] = Val(tasks[KthResolved(k)].result)
                    /\ Val(many.result)[k].contract_address =
                           many.tokens[KthResolved(k)].address

\* A batch over two different tokens of which the first failed and the
\* second resolved.
C5_Witness ==
    /\ op = "get_multiple_tokens" /\ many.pc = "done"
    /\ Len(many.tokens) = 2 /\ many.tokens[1] # many.tokens[2]
    /\ Raised(tasks[1]) /\ Returned(tasks[2])

\* C6 (as claimed): in get_token_with_historical, when the GeckoTerminal path
\* failed, DeFiLlama's current-price call succeeded and only DeFiLlama's
\* historical call failed, the call does not raise: it returns a dict with an
\* empty historical series and a note.
C6_HistoryFailureDegrades ==
    (op = "get_token_with_historical" /\ hist.pc = "done" /\ Len(hist.calls) = 3
        /\ Failed(hist.calls[1]) /\ Succeeded(hist.calls[2]) /\ Failed(hist.calls[3])) =>
            /\ Returned(hist) /\ IsNone(hist.exc)
            /\ "historical_data" \in DOMAIN Val(hist.result)
            /\ Val(hist.result).historical_data = <<>>
            /\ "note" \in DOMAIN Val(hist.result)

\* C7: get_token_with_historical raises exactly when the GeckoTerminal path,
\* the DeFiLlama price+history path and the nested get_token_price all
\* failed, and its message then lists the three failures in that order;
\* whenever the nested get_token_price returns, the call returns that dict
\* with an empty historical series and the note "Historical data unavailable".
C7_HistoricalFallback ==
    (op = "get_token_with_historical" /\ hist.pc = "done") =>
        LET c == hist.calls
            path1_failed == Failed(c[1])
            path2_failed == /\ Len(c) >= 2 /\ c[2].adapter = "defillama"
                            /\ Failed(c[Len(c)])
            path3_failed == Len(tasks) = 1 /\ Raised(tasks[1])
        IN  /\ Raised(hist) <=> (path1_failed /\ path2_failed /\ path3_failed)
            /\ Raised(hist) <=> ~Returned(hist)
            /\ Raised(hist) =>
                  InOrder(Val(hist.exc),
                          <<gecko_ohlcv_failed(ErrorOf(c[1])),
                            llama_historical_failed(ErrorOf(c[Len(c)])),
                            fallback_failed(Val(tasks[1].exc))>>)
            /\ (Len(tasks) = 1 /\ Returned(tasks[1])) =>
                  /\ Returned(hist)
                  /\ Get(Val(hist.result), "historical_data", None) = <<>>
                  /\ Get(Val(hist.result), "note", "") = "Historical data unavailable"
                  /\ \A k \in DOMAIN Val(tasks[1].result) \ {"note", "historical_data"} :
                        Val(hist.result)[k] = Val(tasks[1].result)[k]

\* A call that raised after all three paths failed.
C7_Witness ==
    /\ op = "get_token_with_historical" /\ Raised(hist)
    /\ Len(tasks) = 1 /\ Raised(tasks[1])

\* The source tags a get_token_price result can carry.
SourceTags == {"geckoterminal", "defillama", MetadataOnlyTag}

\* C8 (as claimed): every dict get_token_price returns carries one of the
\* source tags; its current_price is None exactly on the metadata-only path;
\* and a dict from a price source carries a price only when the upstream
\* supplied one (no placeholder stands in for a missing price).
C8_PriceNullIffNoPricing ==
    \A i \in DOMAIN tasks :
        Returned(tasks[i]) =>
            LET r == Val(tasks[i].result)
                c == tasks[i].calls
            IN  /\ r.source \in SourceTags
                /\ IsNone(r.current_price) <=> r.source = MetadataOnlyTag
                /\ r.source = "geckoterminal" =>
                      (~IsNone(r.current_price) => ~IsNone(Val(c[1].answer).price_usd))
                /\ r.source = "defillama" =>
                      (~IsNone(r.current_price) =>
                          "price" \in DOMAIN Val(Val(c[2].answer).coin))

\* The entry compare_sources owes a settled call.
EntryMatches(e, c) ==
    IF Succeeded(c)
    THEN /\ e.success
         /\ e.data = Val(c.out).data
         /\ IF c.adapter = "alchemy" THEN IsNone(e.price)
            ELSE ~IsNone(e.price) /\ e.price = Val(c.out).data.current_price
    ELSE /\ ~e.success
         /\ e.error = ErrorOf(c)

\* C9: compare_sources calls GeckoTerminal, DeFiLlama and Alchemy once each
\* whatever the others answered, and its sources dict holds one entry per
\* settled call under the adapter's name: success with the price, success
\* with price None for Alchemy, or failure with the error message.
C9_CompareAllSources ==
    op = "compare_sources" =>
        LET c == cmp.calls
        IN  /\ Len(c) <= 3
            /\ \A k \in 1..Len(c) : c[k].adapter = SourceOrder[k]
            /\ DOMAIN cmp.sources = {c[k].adapter : k \in {j \in 1..Len(c) : Settled(c[j])}}
            /\ \A k \in 1..Len(c) :
                  Settled(c[k]) => EntryMatches(cmp.sources[c[k].adapter], c[k])
            /\ cmp.pc = "done" =>
                  /\ Len(c) = 3 /\ \A k \in 1..3 : Settled(c[k])
                  /\ DOMAIN cmp.sources = Adapters

\* A finished comparison in which GeckoTerminal failed and the other two
\* adapters were still called and answered.
C9_Witness ==
    /\ op = "compare_sources" /\ cmp.pc = "done"
    /\ Failed(cmp.calls[1]) /\ Succeeded(cmp.calls[2]) /\ Succeeded(cmp.calls[3])

\* The prices the adapters returned to a compare_sources frame.
ReturnedPrices(c) ==
    {k \in 1..Len(c) : /\ Succeeded(c[k])
                       /\ ~IsNone(Get(Val(c[k].out).data, "current_price", None))}

\* C10 (as claimed): compare_sources returns a price_analysis exactly when
\* two or more sources returned a price; it holds the mean of the prices,
\* the largest deviation of a price from the mean in percent of the mean,
\* and consistent, true exactly when that deviation is below 5.
C10_PriceAnalysis ==
    (op = "compare_sources" /\ cmp.pc = "done") =>
        LET c == cmp.calls
            P == ReturnedPrices(c)
            price(k) == Val(Val(c[k].out).data.current_price)
            analysed == Returned(cmp) /\ "price_analysis" \in DOMAIN Val(cmp.result)
        IN  /\ Cardinality(P) >= 2 <=> analysed
            /\ analysed =>
                  LET pa == Val(cmp.result).price_analysis
                      avg == pa.average
                      md == pa.max_deviation_percent
                      \* deviation of price k, as a rational over avg.num
                      dev(k) == 100 * Abs(price(k) * avg.den - avg.num)
                  IN  /\ avg.num * Cardinality(P) = avg.den * Sum([k \in 1..2 |-> price(k)])
                      /\ \A k \in P : dev(k) * md.den <= md.num * avg.num
                      /\ \E k \in P : dev(k) * md.den = md.num * avg.num
                      /\ pa.consistent <=> md.num < 5 * md.den

\* A finished comparison in which GeckoTerminal returned 100, DeFiLlama 104.
Prices100And104 ==
    /\ op = "compare_sources" /\ cmp.pc = "done"
    /\ Succeeded(cmp.calls[1]) /\ Val(cmp.calls[1].out).data.current_price = Some(100)
    /\ Succeeded(cmp.calls[2]) /\ Val(cmp.calls[2].out).data.current_price = Some(104)

\* The analysis of a finished comparison reports average avg, a maximum
\* deviation of at least lo/1000 and below hi/1000 percent, and consistent.
AnalysisReports(avg, lo, hi) ==
    /\ Returned(cmp)
    /\ "price_analysis" \in DOMAIN Val(cmp.result)
    /\ LET pa == Val(cmp.result).price_analysis
       IN  /\ pa.average.num = avg * pa.average.den
           /\ lo * pa.max_deviation_percent.den <= 1000 * pa.max_deviation_percent.num
           /\ 1000 * pa.max_deviation_percent.num < hi * pa.max_deviation_percent.den
           /\ pa.consistent

\* C11 (as claimed): compare_sources over prices 100 and 104 reports average
\* 102, a maximum deviation of about 3.92 percent and consistent = true.
C11_GoldenValue == Prices100And104 => AnalysisReports(102, 3915, 3925)

\* C11 (amended): compare_sources over prices 100 and 104 reports average
\* 102, a maximum deviation of about 1.96 percent (2/102 of the average) and
\* consistent = true.
C11_GoldenValueAmended == Prices100And104 => AnalysisReports(102, 1955, 1965)

\* A comparison of 100 with 104 that returned with an analysis.
C11_Witness ==
    Prices100And104 /\ Returned(cmp) /\ "price_analysis" \in DOMAIN Val(cmp.result)

\* C12 (as claimed): compare_sources launches its three adapter calls
\* concurrently: by the time any of its calls has settled all three have been
\* launched, and it finishes only when all three have settled.
C12_CompareConcurrent ==
    op = "compare_sources" =>
        LET c == cmp.calls
        IN  /\ (\E k \in 1..Len(c) : Settled(c[k])) => Len(c) = 3
            /\ cmp.pc = "done" => Len(c) = 3 /\ \A k \in 1..3 : Settled(c[k])

\* C13: health_check probes GeckoTerminal, DeFiLlama and Alchemy once each
\* whatever the earlier probes answered, never raises, reports an adapter
\* "healthy" when its probe returned and "unhealthy" with the probe's error
\* when it raised, and reports overall = true exactly when all three probes
\* returned.
C13_HealthCheck ==
    op = "health_check" =>
        LET c == health.calls
        IN  /\ IsNone(health.exc)
            /\ Len(c) <= 3
            /\ \A k \in 1..Len(c) : c[k].adapter = SourceOrder[k]
            /\ \A k \in 1..(Len(c) - 1) : Settled(c[k])
            /\ health.pc = "done" =>
                  /\ Len(c) = 3 /\ \A k \in 1..3 : Settled(c[k])
                  /\ Returned(health)
                  /\ LET r == Val(health.result)
                     IN  /\ DOMAIN r.services = Adapters
                         /\ \A k \in 1..3 :
                               LET e == r.services[c[k].adapter]
                               IN  IF Succeeded(c[k]) THEN e = [status |-> "healthy"]
                                   ELSE e = [status |-> "unhealthy", error |-> ErrorOf(c[k])]
                         /\ Get(r, "overall", None) = (\A k \in 1..3 : Succeeded(c[k]))

\* A finished health check in which GeckoTerminal's probe failed and the
\* other two adapters were still probed and found healthy.
C13_Witness ==
    /\ op = "health_check" /\ health.pc = "done"
    /\ Failed(health.calls[1]) /\ Succeeded(health.calls[2]) /\ Succeeded(health.calls[3])
    /\ Val(health.result).overall = FALSE

\* ------------------------------------------------- claims on PortfolioService
\* Field k of the dict frame t returned, None, a missing key and a frame
\* that raised all counting as 0.
FieldOrZero(t, k) ==
    IF Returned(t) /\ k \in DOMAIN Val(t.result) /\ ~IsNone(Val(t.result)[k])
    THEN Val(Val(t.result)[k]) ELSE 0

\* The sum of FieldOrZero over all frames from index i on.
RECURSIVE FieldTotal(_, _)
FieldTotal(i, k) ==
    IF i > Len(tasks) THEN 0 ELSE FieldOrZero(tasks[i], k) + FieldTotal(i + 1, k)

SummaryDone == op = "get_portfolio_summary" /\ portfolio.pc = "done"

\* C14: in get_portfolio_summary total_liquidity_usd is the sum of
\* liquidity_usd, and total_volume_24h_usd the sum of volume_24h, over the
\* main token and the quote tokens that resolved, a null or missing value
\* counting as 0; tokens that failed add nothing.
C14_PortfolioTotals ==
    SummaryDone =>
        /\ Returned(portfolio)
        /\ Val(portfolio.result).statistics.total_liquidity_usd
               = FieldTotal(1, "liquidity_usd")
        /\ Val(portfolio.result).statistics.total_volume_24h_usd
               = FieldTotal(1, "volume_24h")

\* A summary over a main token with liquidity 100, a quote token that failed
\* and a quote token with liquidity 19.
C14_Witness ==
    /\ SummaryDone /\ Len(tasks) = 3
    /\ FieldOrZero(tasks[1], "liquidity_usd") = 100
    /\ Raised(tasks[2])
    /\ FieldOrZero(tasks[3], "liquidity_usd") = 19
    /\ Val(portfolio.result).statistics.total_liquidity_usd = 119

\* The contracts of a list of quote-token results.
Contracts(l) == [i \in DOMAIN l |-> l[i].contract]

\* The configured quote tokens whose frame returned (ok) or raised (~ok), in
\* configuration order; frame i + 1 is quote token i's.
QuotesWith(ok) ==
    SelectSeq([i \in DOMAIN portfolio.quote_tokens |->
                  [contract |-> portfolio.quote_tokens[i].contract,
                   ok |-> Returned(tasks[i + 1])]],
              LAMBDA q : q.ok = ok)

\* C15: get_portfolio_summary never raises, whatever the tokens' outcomes,
\* and its counts agree: total_tokens is the number of quote tokens plus one,
\* successful + failed = total_tokens, the successful and failed lists hold
\* the quote tokens that resolved respectively failed, each once and in
\* configuration order, and successful is the length of the successful list
\* plus one when the main token resolved.
C15_PortfolioCounts ==
    op = "get_portfolio_summary" =>
        /\ IsNone(portfolio.exc)
        /\ portfolio.pc = "done" <=> AllDone(tasks)
        /\ portfolio.pc = "done" =>
              /\ Returned(portfolio)
              /\ LET r == Val(portfolio.result)
                     st == r.statistics
                 IN  /\ st.total_tokens = Len(portfolio.quote_tokens) + 1
                     /\ st.successful + st.failed = st.total_tokens
                     /\ st.successful >= 0 /\ st.failed >= 0
                     /\ Contracts(r.quote_tokens.successful) = Contracts(QuotesWith(TRUE))
                     /\ Contracts(r.quote_tokens.failed) = Contracts(QuotesWith(FALSE))
                     /\ \A i \in DOMAIN r.quote_tokens.successful :
                           r.quote_tokens.successful[i].success
                     /\ \A i \in DOMAIN r.quote_tokens.failed :
                           ~r.quote_tokens.failed[i].success
                     /\ r.main_token.success = Returned(tasks[1])
                     /\ st.successful = Len(r.quote_tokens.successful)
                                          + (IF Returned(tasks[1]) THEN 1 ELSE 0)

\* A summary in which the main token and the first quote token failed and
\* the second quote token resolved.
C15_Witness ==
    /\ SummaryDone /\ Len(tasks) = 3
    /\ Raised(tasks[1]) /\ Raised(tasks[2]) /\ Returned(tasks[3])
    /\ Val(portfolio.result).statistics.successful = 1
    /\ Val(portfolio.result).statistics.failed = 2

\* The sort key of the running top-pairs call.
TopKey == IF op = "get_top_pairs_by_liquidity" THEN "liquidity_usd" ELSE "volume_24h"

TopPairsDone ==
    /\ op \in {"get_top_pairs_by_liquidity", "get_top_pairs_by_volume"}
    /\ portfolio.pc = "done"

\* The quote tokens (indices) whose frame returned.
ResolvedQuotes == {i \in DOMAIN portfolio.quote_tokens : Returned(tasks[i])}

\* C16: get_top_pairs_by_liquidity(n) and get_top_pairs_by_volume(n) return
\* min(n, number of resolved quote tokens) entries, each the entry of a
\* different resolved quote token (never the main token, never a failed
\* token) with its liquidity_usd respectively volume_24h (null as 0), largest
\* first, and no resolved token left out has a larger value than a token
\* returned.
C16_TopPairs ==
    TopPairsDone =>
        /\ Returned(portfolio)
        /\ LET r == Val(portfolio.result)
               k == TopKey
               min == IF portfolio.limit < Cardinality(ResolvedQuotes)
                      THEN portfolio.limit ELSE Cardinality(ResolvedQuotes)
           IN  /\ Len(r) = min
               /\ \A i \in DOMAIN r : r[i].symbol # MAIN_TOKEN.symbol
               /\ \A i, j \in DOMAIN r : i < j => r[i][k] >= r[j][k]
               /\ \E f \in [DOMAIN r -> ResolvedQuotes] :
                     /\ \A i, j \in DOMAIN r : i # j => f[i] # f[j]
                     /\ \A i \in DOMAIN r :
                           /\ r[i].symbol = portfolio.quote_tokens[f[i]].symbol
                           /\ r[i].pair = portfolio.quote_tokens[f[i]].pair
                           /\ r[i][k] = FieldOrZero(tasks[f[i]], k)
                     /\ \A q \in ResolvedQuotes \ {f[i] : i \in DOMAIN r} :
                           \A i \in DOMAIN r : FieldOrZero(tasks[q], k) <= r[i][k]

\* The top pair by liquidity out of two resolved quote tokens of which the
\* second has the larger liquidity, and one failed quote token left out.
C16_Witness ==
    /\ TopPairsDone /\ op = "get_top_pairs_by_liquidity"
    /\ portfolio.limit = 1 /\ Len(tasks) = 2
    /\ FieldOrZero(tasks[1], "liquidity_usd") = 19
    /\ FieldOrZero(tasks[2], "liquidity_usd") = 100
    /\ Len(Val(portfolio.result)) = 1
    /\ Val(portfolio.result)[1].symbol = portfolio.quote_tokens[2].symbol

\* C17: PortfolioService.health_check resolves the main token and no other
\* token, reports "healthy" exactly when the main token resolved and
\* "degraded" otherwise, and never reports "unhealthy".
C17_PortfolioHealth ==
    op = "portfolio_health_check" =>
        /\ Len(tasks) = 1
        /\ tasks[1].token = token_of(MAIN_TOKEN)
        /\ IsNone(portfolio.exc)
        /\ portfolio.pc = "done" <=> tasks[1].pc = "done"
        /\ portfolio.pc = "done" =>
              /\ Returned(portfolio)
              /\ Val(portfolio.result).status \in {"healthy", "degraded"}
              /\ Val(portfolio.result).status = "healthy" <=> Returned(tasks[1])

\* A health check that reported "degraded" after the main token failed.
C17_Witness ==
    /\ op = "portfolio_health_check" /\ portfolio.pc = "done"
    /\ Raised(tasks[1])
    /\ Val(portfolio.result).status = "degraded"

\* ---------------------------------------------------- claims on the sessions
\* The frames that make adapter calls, whichever operation runs.
CallLogs ==
    {tasks[i].calls : i \in DOMAIN tasks} \cup {hist.calls, cmp.calls, health.calls}

\* A call to adapter a is in flight.
InFlight(a) ==
    \E c \in CallLogs : c # <<>> /\ c[Len(c)].adapter = a /\ ~Settled(c[Len(c)])

OpenSessions(st) == {i \in DOMAIN st : ~st[i].closed}

\* Nothing but the sessions changes in a step: the step of close().
CloseStep == UNCHANGED <<op, tasks, hist, many, cmp, health, portfolio>>

\* C18: every adapter acquires its session lazily and releases it once.  At
\* any time an adapter holds at most one open session, no session has been
\* closed twice, and a call in flight has an open session; a session comes
\* into being only in a step that sends a request of that adapter (so none
\* exists before its first network call); close() closes the open session
\* of every adapter, once, and leaves an adapter without a session or with a
\* closed one as it is.
C18_SessionDiscipline ==
    /\ [](\A a \in Adapters :
             /\ Cardinality(OpenSessions(session[a])) <= 1
             /\ \A i \in DOMAIN session[a] :
                   session[a][i].releases = (IF session[a][i].closed THEN 1 ELSE 0)
             /\ InFlight(a) => ~NoneOrClosed(session[a]))
    /\ [][\A a \in Adapters :
             /\ (NoneOrClosed(session[a]) /\ ~NoneOrClosed(session'[a])) => InFlight(a)'
             /\ CloseStep =>
                   IF NoneOrClosed(session[a]) THEN session'[a] = session[a]
                   ELSE session'[a] = <<[closed |-> TRUE, releases |-> 1]>>]_vars

\* A batch with two GeckoTerminal requests in flight over one open session,
\* while DeFiLlama's session of an earlier call is closed.
C18_Witness ==
    /\ op = "get_multiple_tokens" /\ Len(tasks) = 2
    /\ tasks[1].pc = "await_gecko" /\ tasks[2].pc = "await_gecko"
    /\ Cardinality(OpenSessions(session["geckoterminal"])) = 1
    /\ session["defillama"] = <<[closed |-> TRUE, releases |-> 1]>>
    /\ session["alchemy"] = <<>>

\* ------------------------------------------------ claims on TechnicalAnalysis
RECURSIVE Pow(_, _)
Pow(b, e) == IF e = 0 THEN 1 ELSE b * Pow(b, e - 1)

\* The sum of closes[i] for i in lo..hi.
RECURSIVE SumRange(_, _, _)
SumRange(closes, lo, hi) ==
    IF lo > hi THEN 0 ELSE closes[lo] + SumRange(closes, lo + 1, hi)

\* With k = n - p closes after the seed, the recurrence
\* ema = (price - ema) * 2/(p+1) + ema unfolds to
\*   ema * p * (p+1)^k = (p-1)^k * (sum of the first p closes)
\*                       + 2p * sum over j < k of (p-1)^(k-1-j) * (p+1)^j * closes[p+1+j]
\* (closes indexed from 1).  This is the right-hand side.
RECURSIVE Unfolded(_, _, _, _)
Unfolded(closes, p, k, j) ==
    IF j = k THEN Pow(p - 1, k) * SumRange(closes, 1, p)
    ELSE 2 * p * Pow(p - 1, k - 1 - j) * Pow(p + 1, j) * closes[p + 1 + j]
         + Unfolded(closes, p, k, j + 1)

\* C20: for a close series of length n and a period p, SMA(p) and EMA(p) are
\* None when n < p; when n >= p, SMA(p) is the mean of the last p closes and
\* EMA(p) is the value the recurrence ema = (price - ema) * 2/(p+1) + ema
\* reaches from the mean of the first p closes over the remaining closes in
\* order; with n = p the two are equal.
C20_MovingAverages ==
    LET n == Len(ta.closes)
        p == ta.period
    IN  /\ ta.sma_done =>
              IF n < p THEN IsNone(ta.sma)
              ELSE /\ ~IsNone(ta.sma)
                   /\ Val(ta.sma).den > 0
                   /\ Val(ta.sma).num * p = Val(ta.sma).den * SumRange(ta.closes, n - p + 1, n)
        /\ ta.ema_done =>
              IF n < p THEN IsNone(ta.ema)
              ELSE /\ ~IsNone(ta.ema)
                   /\ Val(ta.ema).den > 0
                   /\ Val(ta.ema).num * p * Pow(p + 1, n - p)
                          = Val(ta.ema).den * Unfolded(ta.closes, p, n - p, 0)
        /\ (ta.sma_done /\ ta.ema_done /\ n = p) =>
              /\ ~IsNone(ta.sma) /\ ~IsNone(ta.ema)
              /\ RatEq(Val(ta.sma), Val(ta.ema))

\* Both averages computed over closes 1, 2, 4, 4 with period 2: the SMA is 4
\* and the EMA, seeded with 3/2, is 67/18.
C20_Witness ==
    /\ ta.closes = <<1, 2, 4, 4>> /\ ta.period = 2
    /\ ta.sma_done /\ ta.sma = Some(Rat(4, 1))
    /\ ta.ema_done /\ ta.ema = Some(Rat(67, 18))

\* --------------------------------------------- claims on the indicator set
\* The closes of the series handed to calculate_all_indicators (none when a
\* point has no close).
GivenCloses ==
    LET data == ta.historical_data.data
    IN  IF \A i \in DOMAIN data : "close" \in DOMAIN data[i]
        THEN [i \in DOMAIN data |-> data[i].close]
        ELSE <<>>

\* calculate_all_indicators has returned an indicator set.
IndicatorsDone == ~IsNone(ta.out) /\ Val(ta.out).ok

Indicators == Val(ta.out).data

\* The rises and the falls over the steps into closes[lo..hi], summed.
RECURSIVE RiseSum(_, _, _)
RiseSum(closes, lo, hi) ==
    IF lo > hi THEN 0
    ELSE (IF closes[lo] > closes[lo - 1] THEN closes[lo] - closes[lo - 1] ELSE 0)
         + RiseSum(closes, lo + 1, hi)

RECURSIVE FallSum(_, _, _)
FallSum(closes, lo, hi) ==
    IF lo > hi THEN 0
    ELSE (IF closes[lo] < closes[lo - 1] THEN closes[lo - 1] - closes[lo] ELSE 0)
         + FallSum(closes, lo + 1, hi)

\* C21: RSI(14) is null exactly when the series has fewer than 15 closes; when
\* non-null it lies in [0, 100] and is the two-decimal rounding of
\* 100 * G / (G + L), G and L the summed rises and falls of the trailing 14
\* steps, or of 100 when L = 0; the tag is "overbought" iff that RSI is above
\* 70, "oversold" iff it is below 30, and "neutral" otherwise.
C21_Rsi ==
    IndicatorsDone =>
        LET closes == GivenCloses
            n == Len(closes)
            rsi == Indicators.rsi
            G == RiseSum(closes, n - 13, n)
            L == FallSum(closes, n - 13, n)
            above70 == L = 0 \/ 100 * G > 70 * (G + L)
            below30 == L > 0 /\ 100 * G < 30 * (G + L)
        IN  IF n < 15
            THEN IsNone(rsi.value) /\ rsi.signal = "neutral"
            ELSE /\ ~IsNone(rsi.value)
                 /\ Val(rsi.value).den > 0
                 /\ 0 <= Val(rsi.value).num
                 /\ Val(rsi.value).num <= 100 * Val(rsi.value).den
                 /\ L = 0 => Val(rsi.value) = Rat(100, 1)
                 /\ L > 0 =>
                       200 * Abs(Val(rsi.value).num * (G + L) - 100 * G * Val(rsi.value).den)
                           <= (G + L) * Val(rsi.value).den
                 /\ (rsi.signal = "overbought") = above70
                 /\ (rsi.signal = "oversold") = below30
                 /\ (rsi.signal = "neutral") = (~above70 /\ ~below30)

\* Fifteen closes rising by one each: RSI 100, overbought.
C21_Witness ==
    /\ IndicatorsDone
    /\ GivenCloses = [i \in 1..15 |-> i]
    /\ Indicators.rsi = [value |-> Some(Rat(100, 1)), signal |-> "overbought"]

\* Closes flat at 4 and ending 1, 2: a fall of 3 and a rise of 1 give RSI 25,
\* oversold.
C21_WitnessOversold ==
    /\ IndicatorsDone
    /\ Len(GivenCloses) = 20
    /\ Indicators.rsi = [value |-> Some(Rat(25, 1)), signal |-> "oversold"]

\* The fields of a nullable group are all in the record d and are all None
\* when null is TRUE, all values otherwise.
GroupAsUnit(d, fields, null) ==
    /\ fields \subseteq DOMAIN d
    /\ \A f \in fields : IF f \in DOMAIN d THEN IsNone(d[f]) = null ELSE FALSE

\* C22: in every indicator set, for every series length including 0, the MACD
\* fields macd_line, signal_line and histogram are all present and are all
\* null exactly when n < 26 and all non-null otherwise, and the Bollinger
\* fields upper, middle, lower and bandwidth are all present and are all null
\* exactly when n < 20 and all non-null otherwise.
C22_AllOrNothing ==
    IndicatorsDone =>
        LET n == Len(GivenCloses)
        IN  /\ GroupAsUnit(Indicators.macd,
                           {"macd_line", "signal_line", "histogram"}, n < 26)
            /\ GroupAsUnit(Indicators.bollinger_bands,
                           {"upper", "middle", "lower", "bandwidth"}, n < 20)

\* EMA(12) - EMA(26) over the first i closes, i >= 26.
MacdAt(closes, i) ==
    RatSub(Val(calculate_ema(SubSeq(closes, 1, i), 12)),
           Val(calculate_ema(SubSeq(closes, 1, i), 26)))

\* The MACD values of every prefix of length 26..n, in order.
PrefixMacd(closes) ==
    [j \in 1..(Len(closes) - 25) |-> MacdAt(closes, 25 + j)]

\* C23: for every series with n >= 26, macd_line is EMA(12) - EMA(26) over the
\* full series; signal_line is the 9-period EMA of the MACD values of every
\* prefix of length 26..n, or macd_line when there are fewer than 9 of them;
\* histogram is macd_line - signal_line; the tag is "bullish" iff macd_line >
\* signal_line and histogram > 0, "bearish" iff macd_line < signal_line and
\* histogram < 0, else "neutral" (always "neutral" for 26 <= n <= 33).  The
\* record carries the three values rounded to two decimals.
C23_Macd ==
    (IndicatorsDone /\ Len(GivenCloses) >= 26) =>
        LET closes == floats(GivenCloses)
            n == Len(closes)
            macd == Indicators.macd
            macd_line == MacdAt(closes, n)
            signal_line == IF n - 25 >= 9
                           THEN Val(calculate_ema(PrefixMacd(closes), 9))
                           ELSE macd_line
            histogram == RatSub(macd_line, signal_line)
            tag == IF RatGt(macd_line, signal_line) /\ histogram.num > 0 THEN "bullish"
                   ELSE IF RatLt(macd_line, signal_line) /\ histogram.num < 0 THEN "bearish"
                   ELSE "neutral"
        IN  /\ Get(macd, "macd_line", None) = Some(round(macd_line, 2))
            /\ Get(macd, "signal_line", None) = Some(round(signal_line, 2))
            /\ Get(macd, "histogram", None) = Some(round(histogram, 2))
            /\ Get(macd, "signal", "") = tag
            /\ n <= 33 => Get(macd, "signal", "") = "neutral"

\* The volumes of the series handed to calculate_all_indicators, 0 where a
\* candle reports none.
GivenVolumes ==
    LET data == ta.historical_data.data
    IN  [i \in DOMAIN data |-> Get(data[i], "volume", 0)]

\* The sums of the last 5 volumes and of the 15 before them, n >= 20.
RecentSum(volumes) == SumRange(volumes, Len(volumes) - 4, Len(volumes))
OlderSum(volumes) == SumRange(volumes, Len(volumes) - 19, Len(volumes) - 5)

\* recent mean against 1.2 and 0.8 times the older mean:
\* S5/5 > 1.2 * S15/15 iff 5 * S5 > 2 * S15, S5/5 < 0.8 * S15/15 iff
\* 15 * S5 < 4 * S15.
TrendByMeans(volumes) ==
    IF 5 * RecentSum(volumes) > 2 * OlderSum(volumes) THEN "increasing"
    ELSE IF 15 * RecentSum(volumes) < 4 * OlderSum(volumes) THEN "decreasing"
    ELSE "neutral"

\* C24 as stated: the volume trend is "neutral" if the total volume is 0 or
\* n < 20; otherwise it is "increasing" iff the mean of the last 5 volumes is
\* above 1.2 times the mean of the 15 before them, "decreasing" iff it is
\* below 0.8 times that mean, and "neutral" otherwise, for every volume
\* sequence, one with 15 older volumes of 0 and positive recent volumes
\* included.
C24_VolumeTrend ==
    IndicatorsDone =>
        LET volumes == GivenVolumes
        IN  Indicators.volume_trend =
                IF Sum(volumes) = 0 \/ Len(volumes) < 20 THEN "neutral"
                ELSE TrendByMeans(volumes)

\* C24 amended: the volume trend is "neutral" if the total volume is 0, if
\* n < 20, or if the 15 older volumes are all 0; otherwise it follows the
\* comparison of the two means.
C24_VolumeTrendAmended ==
    IndicatorsDone =>
        LET volumes == GivenVolumes
        IN  Indicators.volume_trend =
                IF Sum(volumes) = 0 \/ Len(volumes) < 20 THEN "neutral"
                ELSE IF OlderSum(volumes) = 0 THEN "neutral"
                ELSE TrendByMeans(volumes)

\* Twenty candles, the older fifteen without volume and the last five with
\* volume 5: the trend is "neutral".
C24_Witness ==
    /\ IndicatorsDone
    /\ GivenVolumes = [i \in 1..20 |-> IF i > 15 THEN 5 ELSE 0]
    /\ Indicators.volume_trend = "neutral"

\* Older volumes of 5 and recent volumes of 7: "increasing".
C24_WitnessIncreasing ==
    /\ IndicatorsDone
    /\ GivenVolumes = [i \in 1..25 |-> IF i > 20 THEN 7 ELSE 5]
    /\ Indicators.volume_trend = "increasing"

\* Older volumes of 5 and recent volumes of 3: "decreasing".
C24_WitnessDecreasing ==
    /\ IndicatorsDone
    /\ GivenVolumes = [i \in 1..25 |-> IF i > 20 THEN 3 ELSE 5]
    /\ Indicators.volume_trend = "decreasing"

\* The votes the composite signal is to be computed from: the RSI vote is
\* withheld only when RSI is null or its tag neutral, the EMA vote only when
\* an EMA is null.
VotesDue(indicators) ==
    LET rsi == indicators.rsi
        tag == Get(indicators.macd, "signal", "neutral")
        ema_12 == Get(indicators.moving_averages, "ema_12", None)
        ema_26 == Get(indicators.moving_averages, "ema_26", None)
    IN  (IF IsNone(rsi.value) THEN <<>>
         ELSE IF rsi.signal = "oversold" THEN <<1>>
         ELSE IF rsi.signal = "overbought" THEN <<-1>>
         ELSE <<>>)
        \o (IF tag = "bullish" THEN <<1>> ELSE IF tag = "bearish" THEN <<-1>> ELSE <<>>)
        \o (IF IsNone(ema_12) \/ IsNone(ema_26) THEN <<>>
            ELSE IF RatGt(Val(ema_12), Val(ema_26)) THEN <<1>>
            ELSE <<-1>>)

\* C25: the overall signal is "neutral" with no vote cast; otherwise it is
\* "bullish" iff the mean of the votes is above 0.3, "bearish" iff it is below
\* -0.3, and "neutral" otherwise, the votes being the RSI vote (+1 whenever
\* the tag is "oversold", -1 whenever "overbought", withheld only when RSI is
\* null or neutral), the MACD vote (+1 "bullish", -1 "bearish") and the EMA
\* vote (+1 if EMA12 > EMA26, -1 otherwise, withheld only when an EMA is null).
C25_OverallSignal ==
    IndicatorsDone =>
        LET votes == VotesDue(Indicators)
        IN  Indicators.overall_signal =
                IF votes = <<>> THEN "neutral"
                ELSE IF 10 * Sum(votes) > 3 * Len(votes) THEN "bullish"
                ELSE IF 10 * Sum(votes) < -3 * Len(votes) THEN "bearish"
                ELSE "neutral"

\* ------------------------------------ claims on the series behind indicators
CandleFields == {"timestamp", "open", "high", "low", "close", "volume"}

\* get_token_with_historical has returned a result.
HistReturned ==
    op = "get_token_with_historical" /\ hist.pc = "done" /\ ~IsNone(hist.result)

\* C26: every historical series a successful get_token_with_historical
\* returns, whichever step produced it, consists of candles carrying
\* timestamp, open, high, low, close and volume, and calculate_all_indicators
\* applied to it returns an indicator set instead of raising.
C26_SeriesOfCandles ==
    HistReturned =>
        LET series == Get(Val(hist.result), "historical_data", <<>>)
        IN  /\ \A i \in DOMAIN series : CandleFields \subseteq DOMAIN series[i]
            /\ calculate_all_indicators([data |-> series]).ok

\* ------------------------------------------- claims on the fallback chains
\* C27: a get_token_price called with include_metadata = False never calls
\* Alchemy, neither to enrich a DeFiLlama success (DeFiLlama's dict is
\* returned as it is) nor as a third step; when GeckoTerminal and DeFiLlama
\* both fail it raises the aggregated error holding exactly the two
\* failure messages, GeckoTerminal's first; and it never returns a result
\* with current_price None.
C27_NoMetadataFallback ==
    \A i \in DOMAIN tasks :
        LET t == tasks[i]
            c == t.calls
        IN  ~t.include_metadata =>
              /\ \A k \in DOMAIN c : c[k].adapter # "alchemy"
              /\ t.pc \notin {"await_enrich", "await_alchemy"}
              /\ (Len(c) = 2 /\ Succeeded(c[2])) =>
                    Returned(t) /\ Val(t.result) = Val(c[2].out).data
              /\ (Len(c) = 2 /\ Failed(c[1]) /\ Failed(c[2])) =>
                    /\ Raised(t) /\ IsNone(t.result)
                    /\ Val(t.exc) =
                          <<"All price sources failed for ", t.token.address, " on ",
                            t.token.network, ". Errors: ">>
                          \o <<"GeckoTerminal failed: ">> \o ErrorOf(c[1])
                          \o <<"; ">>
                          \o <<"DeFiLlama failed: ">> \o ErrorOf(c[2])
              /\ Returned(t) =>
                    /\ ~IsNone(Get(Val(t.result), "current_price", None))
                    /\ Get(Val(t.result), "source", "") # "alchemy"

\* A frame without the metadata fallback that raised after GeckoTerminal and
\* DeFiLlama both failed.
C27_Witness ==
    \E i \in DOMAIN tasks :
        /\ ~tasks[i].include_metadata
        /\ Raised(tasks[i])
        /\ Len(tasks[i].calls) = 2
        /\ Failed(tasks[i].calls[1]) /\ Failed(tasks[i].calls[2])

\* A frame without the metadata fallback that returned DeFiLlama's dict.
C27_WitnessExotic ==
    \E i \in DOMAIN tasks :
        /\ ~tasks[i].include_metadata
        /\ Returned(tasks[i])
        /\ Len(tasks[i].calls) = 2
        /\ Succeeded(tasks[i].calls[2])

\* C28: compare_sources never fails, whatever the adapters answer and
\* whatever prices they report, a price of 0 included: once its three calls
\* have settled it returns a result and raises nothing, and every failed
\* adapter call is in that result as the source's failure entry.
C28_CompareNeverFails ==
    (op = "compare_sources" /\ cmp.pc = "done") =>
        /\ Returned(cmp) /\ IsNone(cmp.exc)
        /\ \A k \in DOMAIN cmp.calls :
              Failed(cmp.calls[k]) =>
                  LET sources == Get(Val(cmp.result), "sources", <<>>)
                      adapter == cmp.calls[k].adapter
                  IN  /\ adapter \in DOMAIN sources
                      /\ sources[adapter] =
                             [success |-> FALSE, error |-> ErrorOf(cmp.calls[k])]

\* The adapter calls of one get_token_with_historical, in the order made: its
\* own and then those of the nested get_token_price of its last step.
HistCalls == hist.calls \o (IF tasks # <<>> THEN tasks[1].calls ELSE <<>>)

CountOf(calls, adapter, method) ==
    Cardinality({k \in DOMAIN calls : calls[k].adapter = adapter /\ calls[k].method = method})

\* C29: one get_token_with_historical makes at most 6 adapter calls, one at a
\* time (every call but the last has settled); GeckoTerminal's price lookup
\* and DeFiLlama's price lookup are each made at most twice, DeFiLlama's
\* history fetch at most once and Alchemy's metadata lookup at most once.
C29_AtMostSixCalls ==
    op = "get_token_with_historical" =>
        LET calls == HistCalls
        IN  /\ Len(calls) <= 6
            /\ \A k \in 1..(Len(calls) - 1) : Settled(calls[k])
            /\ CountOf(calls, "geckoterminal", "get_token_price") <= 2
            /\ CountOf(calls, "defillama", "get_token_price") <= 2
            /\ CountOf(calls, "defillama", "get_historical_prices") <= 1
            /\ CountOf(calls, "alchemy", "get_token_metadata") <= 1

\* Six calls made: both price lookups twice, the history fetch and the
\* metadata lookup once each.
C29_Witness ==
    /\ op = "get_token_with_historical"
    /\ Len(HistCalls) = 6
    /\ CountOf(HistCalls, "geckoterminal", "get_token_price") = 2
    /\ CountOf(HistCalls, "defillama", "get_token_price") = 2
    /\ CountOf(HistCalls, "defillama", "get_historical_prices") = 1
    /\ CountOf(HistCalls, "alchemy", "get_token_metadata") = 1

\* C30: in get_token_with_historical, try 1 succeeds whenever GeckoTerminal's
\* price lookup succeeds: DeFiLlama is then never called and the frame
\* returns; without a pool, or with a failed OHLCV fetch, the result carries
\* an empty historical series.  DeFiLlama's history is fetched only after
\* GeckoTerminal's price lookup has failed.
C30_PriceDecidesStepOne ==
    op = "get_token_with_historical" =>
        LET c == hist.calls
        IN  /\ (c # <<>> /\ Succeeded(c[1])) =>
                  /\ \A k \in DOMAIN c : c[k].adapter = "geckoterminal"
                  /\ tasks = <<>>
                  /\ hist.pc \in {"await_ohlcv", "done"}
                  /\ hist.pc = "done" =>
                        /\ Returned(hist) /\ IsNone(hist.exc)
                        /\ (Len(c) = 1 \/ Failed(c[Len(c)])) =>
                              Get(Val(hist.result), "historical_data", None) = <<>>
            /\ \A k \in DOMAIN c :
                  (c[k].adapter = "defillama" /\ c[k].method = "get_historical_prices") =>
                      Failed(c[1])

\* GeckoTerminal's price lookup succeeded and its OHLCV fetch failed: the
\* frame returned with an empty series after two GeckoTerminal calls.
C30_Witness ==
    /\ op = "get_token_with_historical"
    /\ Returned(hist)
    /\ Len(hist.calls) = 2
    /\ Succeeded(hist.calls[1]) /\ Failed(hist.calls[2])
    /\ Val(hist.result).historical_data = <<>>

\* GeckoTerminal's price lookup succeeded without a pool: the frame returned
\* with an empty series after that one call.
C30_WitnessNoPool ==
    /\ op = "get_token_with_historical"
    /\ Returned(hist)
    /\ Len(hist.calls) = 1 /\ Succeeded(hist.calls[1])
    /\ Val(hist.result).historical_data = <<>>
====
